---------------------------- MODULE Spec2Model ----------------------------
(***************************************************************************)
(* A model of the pyxapiand client library.                                *)
(*                                                                         *)
(*   - the length/string binary encoder   (src/src/xapiand/utils.py)       *)
(*   - the URL builder  Xapiand._build_url   (src/src/xapiand/__init__.py) *)
(*   - the request dispatcher Xapiand._send_request                        *)
(*                                                                         *)
(* Python strings are sequences of characters.  The encoder's strings are  *)
(* sequences of code points (naturals), because the encoder does           *)
(* arithmetic on them (ord / chr).  URL strings are sequences of           *)
(* one-character strings.                                                  *)
(***************************************************************************)
EXTENDS Integers, Sequences, FiniteSets, TLC

VARIABLES
    buf,        \* encoder: the character data last produced or loaded
    src,        \* encoder: how buf was produced (raw input, or an encoding)
    dec,        \* encoder: result of the last decoding call on buf, or NoCall
    client,     \* the Xapiand instance: host, port, commit, prefix, default_accept
    urlCall,    \* URL builder: the arguments of the last _build_url call, or NoCall
    urlOut,     \* URL builder: the string that call returned, or NoCall
    pc,         \* dispatcher: "idle", "awaiting" (suspended at the transport), "done"
    call,       \* dispatcher: the arguments of the _send_request invocation
    request,    \* dispatcher: what was handed to session.request
    sent,       \* dispatcher: number of transport requests this invocation issued
    response,   \* dispatcher: the response the transport delivered
    outcome     \* dispatcher: the value returned or the exception raised

encVars == <<buf, src, dec>>

urlVars == <<urlCall, urlOut>>

dispVars == <<pc, call, request, sent, response, outcome>>

vars == <<buf, src, dec, client, urlCall, urlOut, pc, call, request, sent, response, outcome>>

NoCall == [op |-> "none"]

(***************************************************************************)
(* Generic helpers                                                         *)
(***************************************************************************)
SeqsUpTo(S, n) == UNION {[1..k -> S] : k \in 0..n}

Fill(n, c) == [i \in 1..n |-> c]

\* Python slice data[k:] for a 0-based k, on a 1-based sequence
SliceFrom(data, k) == SubSeq(data, k + 1, Len(data))

\* Python slice data[:k] for k >= 0
SliceTo(data, k) == SubSeq(data, 1, IF k < Len(data) THEN k ELSE Len(data))

(***************************************************************************)
(* utils.py : serialise_length / unserialise_length                        *)
(***************************************************************************)

\* b & 0x7f
Low7(b) == b % 128

\* b & 0x80  (as a truth value)
HighBit(b) == (b \div 128) % 2 = 1

\* The `while True` loop of serialise_length (lines 63-69): 7 bits per
\* character, least significant group first, 0x80 set on the last one.
RECURSIVE EncodeGroups(_)
EncodeGroups(length) ==
    LET b    == Low7(length)
        rest == length \div 128
    IN  IF rest = 0
        THEN <<b + 128>>
        ELSE <<b>> \o EncodeGroups(rest)

\* mutant: the single-byte form is used up to and including 255
serialise_length_off_by_one(length) ==
    IF length <= 255
    THEN <<length>>
    ELSE <<255>> \o EncodeGroups(length - 255)

\* mutant: the continuation bit is set on every group but the last
serialise_length_inverted_bit(length) ==
    IF length < 255
    THEN <<length>>
    ELSE LET g == EncodeGroups(length - 255)
         IN  <<255>> \o [i \in 1..Len(g) |->
                            IF i = Len(g) THEN Low7(g[i]) ELSE Low7(g[i]) + 128]

serialise_length(length) ==
    IF length < 255
    THEN <<length>>
    ELSE <<255>> \o EncodeGroups(length - 255)

ValueError(msg) == [ok |-> FALSE, err |-> "ValueError", msg |-> msg]

\* The for/else loop of unserialise_length (lines 101-108).  p is the
\* 1-based position of the character examined, mul is 2^shift.
\* Gives the position of the terminating character and the accumulated
\* length, or found = FALSE when the data runs out (the else branch).
RECURSIVE DecodeGroups(_, _, _, _)
DecodeGroups(data, p, length, mul) ==
    IF p > Len(data)
    THEN [found |-> FALSE]
    ELSE LET b   == data[p]
             acc == length + Low7(b) * mul
         IN  IF HighBit(b)
             THEN [found |-> TRUE, at |-> p, length |-> acc]
             ELSE DecodeGroups(data, p + 1, acc, mul * 128)

\* mutant: running out of data is not an error, the partial value is used
unserialise_length_no_else(data, check_remaining) ==
    IF data = <<>>
    THEN ValueError("no data")
    ELSE LET first == data[1]
             g     == DecodeGroups(data, 2, 0, 1)
             r     == IF first = 255
                      THEN IF g.found
                           THEN [length |-> g.length + 255, data |-> SliceFrom(data, g.at)]
                           ELSE [length |-> 255, data |-> <<>>]
                      ELSE [length |-> first, data |-> SliceFrom(data, 1)]
         IN  IF check_remaining /\ r.length > Len(r.data)
             THEN ValueError("length greater than data")
             ELSE [ok |-> TRUE, length |-> r.length, data |-> r.data]

\* mutant: check_remaining is ignored
unserialise_length_unchecked(data, check_remaining) ==
    IF data = <<>>
    THEN ValueError("no data")
    ELSE LET first == data[1]
             g     == DecodeGroups(data, 2, 0, 1)
         IN  IF first = 255
             THEN IF ~g.found
                  THEN ValueError("insufficient data")
                  ELSE [ok |-> TRUE, length |-> g.length + 255,
                        data |-> SliceFrom(data, g.at)]
             ELSE [ok |-> TRUE, length |-> first, data |-> SliceFrom(data, 1)]

\* mutant: the character that ends the encoding is left in the data
unserialise_length_keeps_last(data, check_remaining) ==
    IF data = <<>>
    THEN ValueError("no data")
    ELSE LET first == data[1]
             g     == DecodeGroups(data, 2, 0, 1)
         IN  IF first = 255 /\ ~g.found
             THEN ValueError("insufficient data")
             ELSE LET length == IF first = 255 THEN g.length + 255 ELSE first
                      rest   == IF first = 255
                                THEN SliceFrom(data, g.at - 1)
                                ELSE SliceFrom(data, 1)
                  IN  IF check_remaining /\ length > Len(rest)
                      THEN ValueError("length greater than data")
                      ELSE [ok |-> TRUE, length |-> length, data |-> rest]

unserialise_length(data, check_remaining) ==
    IF data = <<>>
    THEN ValueError("no data")
    ELSE LET first == data[1]
             g     == DecodeGroups(data, 2, 0, 1)
         IN  IF first = 255 /\ ~g.found
             THEN ValueError("insufficient data")
             ELSE LET length == IF first = 255 THEN g.length + 255 ELSE first
                      rest   == IF first = 255
                                THEN SliceFrom(data, g.at)
                                ELSE SliceFrom(data, 1)
                  IN  IF check_remaining /\ length > Len(rest)
                      THEN ValueError("length greater than data")
                      ELSE [ok |-> TRUE, length |-> length, data |-> rest]

(***************************************************************************)
(* utils.py : serialise_string / unserialise_string                        *)
(***************************************************************************)

\* mutant: the prefix holds the length plus one
serialise_string_wrong_length(s) == serialise_length(Len(s) + 1) \o s

serialise_string(s) == serialise_length(Len(s)) \o s

\* mutant: the length is decoded without the strict check
unserialise_string_unchecked(data) ==
    LET r == unserialise_length(data, FALSE)
    IN  IF ~r.ok
        THEN r
        ELSE [ok |-> TRUE, s |-> SliceTo(r.data, r.length),
              data |-> SliceFrom(r.data, r.length)]

unserialise_string(data) ==
    LET r == unserialise_length(data, TRUE)
    IN  IF ~r.ok
        THEN r
        ELSE [ok |-> TRUE, s |-> SliceTo(r.data, r.length),
              data |-> SliceFrom(r.data, r.length)]

(***************************************************************************)
(* Python values and string operations used by the client                  *)
(***************************************************************************)
PyNone == [t |-> "none"]

PyStr(s) == [t |-> "str", s |-> s]

PyInt(i) == [t |-> "int", i |-> i]

PyBool(b) == [t |-> "bool", b |-> b]

\* a Python list of values
PyList(items) == [t |-> "list", items |-> items]

\* the mapping with no key
EmptyMap == [k \in {} |-> PyNone]

\* a plain dict, and a DictObject (collections.py), holding the mapping d
PyDict(d) == [t |-> "dict", cls |-> "dict", d |-> d]

DictObject(d) == [t |-> "dict", cls |-> "DictObject", d |-> d]

\* NA = object(), line 129: the 'no default supplied' sentinel
NA == [t |-> "NA"]

\* bool(v)
Truthy(v) ==
    CASE v.t = "none"  -> FALSE
      [] v.t = "str"   -> v.s # <<>>
      [] v.t = "int"   -> v.i # 0
      [] v.t = "bool"  -> v.b
      [] v.t = "dict"  -> DOMAIN v.d # {}
      [] v.t = "list"  -> v.items # <<>>
      [] OTHER         -> TRUE

\* d.pop(k) / del d[k] on a mapping
MapPop(d, k) == [x \in (DOMAIN d) \ {k} |-> d[x]]

\* d[k] = v on a mapping
MapSet(d, k, v) == [x \in (DOMAIN d) \cup {k} |-> IF x = k THEN v ELSE d[x]]

\* p in s, for strings
IsSubstring(p, s) ==
    \E i \in 0..(Len(s) - Len(p)) : SubSeq(s, i + 1, i + Len(p)) = p

DigitChar(d) == <<"0", "1", "2", "3", "4", "5", "6", "7", "8", "9">>[d + 1]

\* str(i) for i >= 0
RECURSIVE IntToStr(_)
IntToStr(i) ==
    IF i < 10
    THEN <<DigitChar(i)>>
    ELSE IntToStr(i \div 10) \o <<DigitChar(i % 10)>>

\* f'{v}'
Format(v) ==
    CASE v.t = "none" -> <<"N", "o", "n", "e">>
      [] v.t = "str"  -> v.s
      [] v.t = "int"  -> IntToStr(v.i)

\* c in s
Contains(s, c) == \E i \in 1..Len(s) : s[i] = c

\* position of the first c in s; only used when Contains(s, c)
FirstIndex(s, c) == CHOOSE i \in 1..Len(s) : s[i] = c /\ \A j \in 1..(i - 1) : s[j] # c

\* s.partition(c): (before, after) around the first c, (s, '') without one
Partition(s, c) ==
    IF Contains(s, c)
    THEN [before |-> SubSeq(s, 1, FirstIndex(s, c) - 1),
          after  |-> SubSeq(s, FirstIndex(s, c) + 1, Len(s))]
    ELSE [before |-> s, after |-> <<>>]

\* s.split(c): always at least one token
RECURSIVE Split(_, _)
Split(s, c) ==
    IF Contains(s, c)
    THEN <<Partition(s, c).before>> \o Split(Partition(s, c).after, c)
    ELSE <<s>>

\* s.strip(c)
RECURSIVE Strip(_, _)
Strip(s, c) ==
    IF s # <<>> /\ s[1] = c            THEN Strip(Tail(s), c)
    ELSE IF s # <<>> /\ s[Len(s)] = c  THEN Strip(SubSeq(s, 1, Len(s) - 1), c)
    ELSE s

\* sep.join(parts)
RECURSIVE Join(_, _)
Join(parts, sep) ==
    IF parts = <<>> THEN <<>>
    ELSE IF Len(parts) = 1 THEN parts[1]
    ELSE parts[1] \o sep \o Join(Tail(parts), sep)

\* The orders in which iterating a Python set S can yield its elements
Orderings(S) ==
    {f \in [1..Cardinality(S) -> S] : \A i, j \in 1..Cardinality(S) : f[i] = f[j] => i = j}

(***************************************************************************)
(* __init__.py : module constants and Xapiand.__init__                     *)
(***************************************************************************)
COMMAND_PREFIX == <<":">>

\* os.environ.get defaults, lines 100-103
XAPIAND_HOST == PyStr(<<"1", "2", "7", ".", "0", ".", "0", ".", "1">>)

XAPIAND_PORT == PyInt(8880)

XAPIAND_COMMIT == PyBool(FALSE)

XAPIAND_PREFIX == PyStr(<<"d", "e", "f", "a", "u", "l", "t">>)

S_json == <<"a", "p", "p", "l", "i", "c", "a", "t", "i", "o", "n", "/", "j", "s", "o", "n">>

S_msgpack == <<"a", "p", "p", "l", "i", "c", "a", "t", "i", "o", "n", "/", "x", "-", "m", "s", "g", "p", "a", "c", "k">>

S_accept_encoding == <<"d", "e", "f", "l", "a", "t", "e", ",", " ", "g", "z", "i", "p", ",", " ", "i", "d", "e", "n", "t", "i", "t", "y">>

\* the spelling of an action name, for f'{COMMAND_PREFIX}{action_request}'
ActionChars(a) ==
    CASE a = "search" -> <<"s", "e", "a", "r", "c", "h">>
      [] a = "stats"  -> <<"s", "t", "a", "t", "s">>
      [] a = "get"    -> <<"g", "e", "t">>
      [] a = "delete" -> <<"d", "e", "l", "e", "t", "e">>
      [] a = "head"   -> <<"h", "e", "a", "d">>
      [] a = "post"   -> <<"p", "o", "s", "t">>
      [] a = "put"    -> <<"p", "u", "t">>
      [] a = "patch"  -> <<"p", "a", "t", "c", "h">>
      [] a = "merge"  -> <<"m", "e", "r", "g", "e">>
      [] a = "store"  -> <<"s", "t", "o", "r", "e">>

\* the keys of Xapiand._methods
Actions ==
    {"search", "stats", "get", "delete", "head", "post", "put", "patch", "merge", "store"}

\* Xapiand.__init__ (lines 204-221).  host, port, prefix and
\* default_accept are Python values (None, str or int); commit is a Boolean
\* or None.  The msgpack module is taken to be installed (line 217), and the
\* default Accept-Encoding is always the built-in one.
Xapiand(host, port, commit, prefix, default_accept) ==
    LET host1 == IF host.t = "none" THEN XAPIAND_HOST ELSE host
        port1 == IF port.t = "none" THEN XAPIAND_PORT ELSE port
        split == Truthy(host1) /\ Contains(host1.s, ":")
    IN  [host   |-> IF split THEN PyStr(Partition(host1.s, ":").before) ELSE host1,
         port   |-> IF split THEN PyStr(Partition(host1.s, ":").after) ELSE port1,
         commit |-> IF commit.t = "none" THEN XAPIAND_COMMIT ELSE commit,
         prefix |-> IF Truthy(prefix) THEN Format(prefix) \o <<"/">> ELSE <<>>,
         default_accept |-> IF default_accept = PyNone THEN S_msgpack
                            ELSE default_accept.s,
         default_accept_encoding |-> S_accept_encoding]

\* mutant: the shared session follows redirects
session_follows_redirects ==
    [max_connections |-> 100, max_keepalive_connections |-> 100,
     trust_env |-> FALSE, follow_redirects |-> TRUE]

\* Xapiand.session, lines 161-165: the transport shared by all clients
session ==
    [max_connections |-> 100, max_keepalive_connections |-> 100,
     trust_env |-> FALSE, follow_redirects |-> FALSE]

\* whether the transport follows a redirect answered to a request made
\* with the keyword arguments kwargs: a follow_redirects keyword of the
\* request takes the place of the session's setting
FollowsRedirects(kwargs) ==
    IF "follow_redirects" \in DOMAIN kwargs
    THEN Truthy(kwargs["follow_redirects"])
    ELSE session.follow_redirects

(***************************************************************************)
(* __init__.py : Xapiand._build_url                                        *)
(***************************************************************************)

\* mutant: an explicit port argument wins over the port given in the host
ResolveHostPort_port_argument_wins(self, host, port) ==
    LET split == Truthy(host) /\ Contains(host.s, ":")
        host1 == IF split THEN PyStr(Partition(host.s, ":").before) ELSE host
        port1 == IF split /\ ~Truthy(port)
                 THEN PyStr(Partition(host.s, ":").after) ELSE port
        host2 == IF ~Truthy(host1) THEN self.host ELSE host1
        port2 == IF ~Truthy(port1) THEN self.port ELSE port1
    IN  Format(host2) \o <<":">> \o Format(port2)

\* Lines 247-253: the 'host:port' text of the URL
ResolveHostPort(self, host, port) ==
    LET split == Truthy(host) /\ Contains(host.s, ":")
        host1 == IF split THEN PyStr(Partition(host.s, ":").before) ELSE host
        port1 == IF split THEN PyStr(Partition(host.s, ":").after) ELSE port
        host2 == IF ~Truthy(host1) THEN self.host ELSE host1
        port2 == IF ~Truthy(port1) THEN self.port ELSE port1
    IN  Format(host2) \o <<":">> \o Format(port2)

\* Lines 255-256 and set(index) of line 258: the set of index tokens.
\* index is a str, or a tuple / list / set of str.
IndexTokens(index) ==
    CASE index.t = "str"  -> {Split(index.s, ",")[k] : k \in 1..Len(Split(index.s, ","))}
      [] index.t = "list" -> {index.items[k] : k \in 1..Len(index.items)}
      [] index.t = "set"  -> index.items

\* Lines 258-259.  order is the sequence in which iterating set(index)
\* yields the tokens, which Python leaves unspecified.
IndexPath(self, index, id, order) ==
    LET indexes == [k \in 1..Len(order) |-> self.prefix \o Strip(order[k], "/")]
        idtext  == IF Truthy(id) THEN id.s ELSE <<>>
    IN  Join([k \in 1..Len(indexes) |-> indexes[k] \o <<"/">> \o idtext], <<",">>)

\* mutant: the command suffix is appended for every action
build_url_always_command(self, action_request, index, host, port, nodename, id, order) ==
    <<"h", "t", "t", "p", ":", "/", "/">>
        \o ResolveHostPort(self, host, port)
        \o <<"/">>
        \o IndexPath(self, index, id, order)
        \o (IF Truthy(nodename) THEN <<"@">> \o nodename.s ELSE <<>>)
        \o COMMAND_PREFIX \o ActionChars(action_request)

\* Xapiand._build_url (lines 225-268)
build_url(self, action_request, index, host, port, nodename, id, order) ==
    <<"h", "t", "t", "p", ":", "/", "/">>
        \o ResolveHostPort(self, host, port)
        \o <<"/">>
        \o IndexPath(self, index, id, order)
        \o (IF Truthy(nodename) THEN <<"@">> \o nodename.s ELSE <<>>)
        \o (IF action_request \in {"search", "stats"}
            THEN COMMAND_PREFIX \o ActionChars(action_request)
            ELSE <<>>)

(***************************************************************************)
(* __init__.py : Xapiand._send_request, up to the transport call           *)
(* (lines 313-378)                                                         *)
(***************************************************************************)
RESPONSE_QUERY == "#query"

RESPONSE_AGGREGATIONS == "#aggregations"

\* Xapiand._methods (lines 166-177)
Methods(a) ==
    CASE a = "search" -> [method |-> "GET",    key |-> "results"]
      [] a = "stats"  -> [method |-> "GET",    key |-> "result"]
      [] a = "get"    -> [method |-> "GET",    key |-> "result"]
      [] a = "delete" -> [method |-> "DELETE", key |-> "result"]
      [] a = "head"   -> [method |-> "HEAD",   key |-> "result"]
      [] a = "post"   -> [method |-> "POST",   key |-> "result"]
      [] a = "put"    -> [method |-> "PUT",    key |-> "result"]
      [] a = "patch"  -> [method |-> "PATCH",  key |-> "result"]
      [] a = "merge"  -> [method |-> "MERGE",  key |-> "result"]
      [] a = "store"  -> [method |-> "STORE",  key |-> "result"]

\* a value returned, an exception raised.  decoded tells whether the
\* response body was parsed (json.loads / msgpack.loads) on the way.
Return(v, decoded) == [kind |-> "return", value |-> v, decoded |-> decoded]

Raise(exc, decoded) == [kind |-> "raise", exc |-> exc, decoded |-> decoded]

\* k.replace('__', '.')
RECURSIVE ReplaceDunder(_)
ReplaceDunder(k) ==
    IF k = <<>> THEN <<>>
    ELSE IF Len(k) >= 2 /\ k[1] = "_" /\ k[2] = "_"
         THEN <<".">> \o ReplaceDunder(SubSeq(k, 3, Len(k)))
         ELSE <<k[1]>> \o ReplaceDunder(Tail(k))

\* ('commit', 'volatile', 'pretty', 'indent'), line 324
FlagParams ==
    {<<"c", "o", "m", "m", "i", "t">>,
     <<"v", "o", "l", "a", "t", "i", "l", "e">>,
     <<"p", "r", "e", "t", "t", "y">>,
     <<"i", "n", "d", "e", "n", "t">>}

\* a dict built by inserting the (key, value) pairs of items in order;
\* keys records the order in which iterating it yields its keys
PyDictOf(items) ==
    [t |-> "dict", cls |-> "dict",
     keys |-> [i \in 1..Len(items) |-> items[i][1]],
     d |-> [k \in {items[i][1] : i \in 1..Len(items)} |->
              items[CHOOSE i \in 1..Len(items) : items[i][1] = k][2]]]

\* (v and 1 or 0) if isinstance(v, bool) else v, line 322
ParamValue(v) == IF v.t = "bool" THEN PyInt(IF v.b THEN 1 ELSE 0) ELSE v

\* the positions of params.keys that pass the filter of line 324
KeptParams(params) ==
    {i \in 1..Len(params.keys) :
        params.keys[i] \notin FlagParams \/ Truthy(params.d[params.keys[i]])}

\* mutant: falsy flag parameters are sent like any other
NormalizeParams_keeps_flags(params) ==
    [nk \in {ReplaceDunder(params.keys[i]) : i \in 1..Len(params.keys)} |->
        ParamValue(params.d[params.keys[
            CHOOSE i \in 1..Len(params.keys) :
                /\ ReplaceDunder(params.keys[i]) = nk
                /\ \A j \in 1..Len(params.keys) :
                       ReplaceDunder(params.keys[j]) = nk => j <= i]])]

\* Lines 321-325: the dict comprehension over params.items().  params is
\* a dict from names (strings) to values, iterated in insertion order; of
\* two names that collide after the replacement the later one gives the
\* value.
NormalizeParams(params) ==
    [nk \in {ReplaceDunder(params.keys[i]) : i \in KeptParams(params)} |->
        ParamValue(params.d[params.keys[
            CHOOSE i \in KeptParams(params) :
                /\ ReplaceDunder(params.keys[i]) = nk
                /\ \A j \in KeptParams(params) :
                       ReplaceDunder(params.keys[j]) = nk => j <= i]])]

\* datetime.date(y, m, d)
PyDate(y, m, d) == [t |-> "date", y |-> y, m |-> m, d |-> d]

\* a fixed UTC offset in minutes; tzinfo is this or None
PyTz(minutes) == [t |-> "tz", minutes |-> minutes]

\* datetime.time(h, mi, s, us, tzinfo)
PyTime(h, mi, s, us, tz) ==
    [t |-> "time", h |-> h, mi |-> mi, s |-> s, us |-> us, tz |-> tz]

\* datetime.datetime: a date and a time of day
PyDateTime(date, time) == [t |-> "datetime", date |-> date, time |-> time]

\* decimal.Decimal: coef * 10^exp
PyDecimal(coef, exp) == [t |-> "decimal", coef |-> coef, exp |-> exp]

\* 10^n for n >= 0
RECURSIVE Pow10(_)
Pow10(n) == IF n = 0 THEN 1 ELSE 10 * Pow10(n - 1)

\* the number of trailing zero digits of c that can move into the exponent
RECURSIVE TrailingZeros(_)
TrailingZeros(c) == IF c = 0 \/ c % 10 # 0 THEN 0 ELSE 1 + TrailingZeros(c \div 10)

\* a float, by the shortest decimal that names it: coef * 10^exp with coef
\* not a multiple of ten (0.0 is coef 0, exp 0)
PyFloatOf(coef, exp) ==
    [t |-> "float", kind |-> "finite",
     trunc |-> IF exp >= 0 THEN coef * Pow10(exp) ELSE coef \div Pow10(0 - exp),
     coef |-> coef, exp |-> exp]

\* json.dumps(v, ensure_ascii=True) / msgpack.dumps(v): the text or bytes
\* that encode v in the format
Dumps(format, v) == [t |-> "encoded", format |-> format, of |-> v]

\* open(body, 'r')
FileHandle(path) == [t |-> "file", path |-> path]

\* mutant: the reference is prefixed without stripping its slashes
RewriteSchema_no_strip(self, body) ==
    LET schema == body.d["_schema"]
    IN  IF schema.t = "dict"
        THEN IF "_foreign" \notin DOMAIN schema.d
             THEN [ok |-> FALSE, exc |-> "KeyError"]
             ELSE IF schema.d["_foreign"].t # "str"
             THEN [ok |-> FALSE, exc |-> "AttributeError"]
             ELSE [ok |-> TRUE,
                   body |-> [body EXCEPT !.d = MapSet(body.d, "_schema",
                       [schema EXCEPT !.d = MapSet(schema.d, "_foreign",
                           PyStr(self.prefix \o schema.d["_foreign"].s))])]]
        ELSE IF schema.t = "str"
        THEN [ok |-> TRUE,
              body |-> [body EXCEPT !.d = MapSet(body.d, "_schema",
                                             PyStr(self.prefix \o schema.s))]]
        ELSE [ok |-> FALSE, exc |-> "AttributeError"]

\* Lines 347-355: the '_schema' reference of a dict body gets the client
\* prefix.  Gives the rewritten body, or the exception raised.
RewriteSchema(self, body) ==
    LET schema == body.d["_schema"]
    IN  IF schema.t = "dict"
        THEN IF "_foreign" \notin DOMAIN schema.d
             THEN [ok |-> FALSE, exc |-> "KeyError"]
             ELSE IF schema.d["_foreign"].t # "str"
             THEN [ok |-> FALSE, exc |-> "AttributeError"]
             ELSE [ok |-> TRUE,
                   body |-> [body EXCEPT !.d = MapSet(body.d, "_schema",
                       [schema EXCEPT !.d = MapSet(schema.d, "_foreign",
                           PyStr(self.prefix \o Strip(schema.d["_foreign"].s, "/")))])]]
        ELSE IF schema.t = "str"
        THEN [ok |-> TRUE,
              body |-> [body EXCEPT !.d = MapSet(body.d, "_schema",
                                             PyStr(self.prefix \o Strip(schema.s, "/")))]]
        ELSE [ok |-> FALSE, exc |-> "AttributeError"]

\* d.setdefault(k, v) on a mapping: the mapping afterwards
SetDefault(d, k, v) == IF k \in DOMAIN d THEN d ELSE MapSet(d, k, v)

\* Lines 313-317: the HTTP verb
HttpMethod(action_request, body) ==
    IF action_request = "search" /\ body # PyNone
    THEN Methods("post").method
    ELSE Methods(action_request).method

\* Lines 319-325: kwargs after the params entry is rewritten
KwargsWithParams(kwargs) ==
    IF "params" \in DOMAIN kwargs /\ kwargs["params"] # PyNone
    THEN MapSet(kwargs, "params", PyDict(NormalizeParams(kwargs["params"])))
    ELSE MapPop(kwargs, "params")

\* Lines 327-329: the headers mapping after the two setdefault calls
DefaultHeaders(self, kwargs) ==
    SetDefault(
        SetDefault(IF "headers" \in DOMAIN kwargs THEN kwargs["headers"].d ELSE EmptyMap,
                   "accept", PyStr(self.default_accept)),
        "accept-encoding", PyStr(self.default_accept_encoding))

\* mutant: a content-type the caller supplied survives the json and
\* msgpack keywords
Negotiate_caller_content_type_wins(kwargs, headers, body) ==
    IF "json" \in DOMAIN kwargs
    THEN [body       |-> kwargs["json"],
          headers    |-> SetDefault(headers, "content-type", PyStr(S_json)),
          kwargs     |-> MapPop(kwargs, "json"),
          is_msgpack |-> FALSE,
          is_json    |-> TRUE]
    ELSE IF "msgpack" \in DOMAIN kwargs
    THEN [body       |-> kwargs["msgpack"],
          headers    |-> SetDefault(headers, "content-type", PyStr(S_msgpack)),
          kwargs     |-> MapPop(kwargs, "msgpack"),
          is_msgpack |-> TRUE,
          is_json    |-> FALSE]
    ELSE [body       |-> body,
          headers    |-> SetDefault(headers, "content-type", headers["accept"]),
          kwargs     |-> kwargs,
          is_msgpack |-> IsSubstring(S_msgpack,
                            SetDefault(headers, "content-type", headers["accept"])["content-type"].s),
          is_json    |-> IsSubstring(S_json,
                            SetDefault(headers, "content-type", headers["accept"])["content-type"].s)]

\* Lines 331-344: the body, the content type and the wire format.  kwargs
\* has gone through lines 319-325 and headers through lines 327-329.
Negotiate(kwargs, headers, body) ==
    IF "json" \in DOMAIN kwargs
    THEN [body       |-> kwargs["json"],
          headers    |-> MapSet(headers, "content-type", PyStr(S_json)),
          kwargs     |-> MapPop(kwargs, "json"),
          is_msgpack |-> FALSE,
          is_json    |-> TRUE]
    ELSE IF "msgpack" \in DOMAIN kwargs
    THEN [body       |-> kwargs["msgpack"],
          headers    |-> MapSet(headers, "content-type", PyStr(S_msgpack)),
          kwargs     |-> MapPop(kwargs, "msgpack"),
          is_msgpack |-> TRUE,
          is_json    |-> FALSE]
    ELSE [body       |-> body,
          headers    |-> SetDefault(headers, "content-type", headers["accept"]),
          kwargs     |-> kwargs,
          is_msgpack |-> IsSubstring(S_msgpack,
                            SetDefault(headers, "content-type", headers["accept"])["content-type"].s),
          is_json    |-> IsSubstring(S_json,
                            SetDefault(headers, "content-type", headers["accept"])["content-type"].s)]

\* json.dumps / msgpack.dumps are called without a default hook: they
\* encode None, booleans, numbers, strings, lists and dicts of these, and
\* raise TypeError on a value of any other type
RECURSIVE Serializable(_)
Serializable(v) ==
    CASE v.t \in {"none", "bool", "int", "float", "str"} -> TRUE
      [] v.t = "list" -> \A i \in DOMAIN v.items : Serializable(v.items[i])
      [] v.t = "dict" -> \A k \in DOMAIN v.d : Serializable(v.d[k])
      [] OTHER -> FALSE

\* Lines 362-368: dumps raises on the body
DumpsRaises(body, is_msgpack, is_json) ==
    /\ body.t \in {"dict", "list"}
    /\ is_msgpack \/ is_json
    /\ ~Serializable(body)

\* Lines 362-368: the content handed to the transport for a body
SerializeBody(body, is_msgpack, is_json, isfile) ==
    IF body.t \in {"dict", "list"}
    THEN IF is_msgpack THEN Dumps("msgpack", body)
         ELSE IF is_json THEN Dumps("json", body)
         ELSE body
    ELSE IF isfile THEN FileHandle(body)
    ELSE body

\* Lines 346-369: a request with a body.  n is what Negotiate gives;
\* kwargs holds the headers mapping after lines 327-344.
RequestWithBody(self, method, url, n, kwargs, isfile) ==
    IF n.body.t = "dict" /\ "_schema" \in DOMAIN n.body.d
    THEN IF ~RewriteSchema(self, n.body).ok
         THEN [ok |-> FALSE, exc |-> RewriteSchema(self, n.body).exc]
         ELSE IF DumpsRaises(RewriteSchema(self, n.body).body, n.is_msgpack, n.is_json)
         THEN [ok |-> FALSE, exc |-> "TypeError"]
         ELSE [ok |-> TRUE,
               request |-> [method |-> method, url |-> url,
                            kwargs |-> MapSet(kwargs, "content",
                                SerializeBody(RewriteSchema(self, n.body).body,
                                              n.is_msgpack, n.is_json, isfile))]]
    ELSE IF DumpsRaises(n.body, n.is_msgpack, n.is_json)
    THEN [ok |-> FALSE, exc |-> "TypeError"]
    ELSE [ok |-> TRUE,
          request |-> [method |-> method, url |-> url,
                       kwargs |-> MapSet(kwargs, "content",
                           SerializeBody(n.body, n.is_msgpack, n.is_json, isfile))]]

\* Lines 370-378: a request without a body.  data is kwargs.pop('data', None).
RequestWithoutBody(method, url, n, kwargs, data) ==
    IF Truthy(data) /\ (n.is_msgpack \/ n.is_json) /\ ~Serializable(data)
    THEN [ok |-> FALSE, exc |-> "TypeError"]
    ELSE
    [ok |-> TRUE,
     request |-> [method |-> method, url |-> url,
                  kwargs |-> IF Truthy(data) /\ n.is_msgpack
                             THEN MapSet(kwargs, "content", Dumps("msgpack", data))
                             ELSE IF Truthy(data) /\ n.is_json
                             THEN MapSet(kwargs, "content", Dumps("json", data))
                             ELSE kwargs]]

\* Lines 346-378.  n is what Negotiate gives.
BuildRequest(self, method, url, n, isfile) ==
    IF n.body # PyNone
    THEN RequestWithBody(self, method, url, n,
                         MapSet(n.kwargs, "headers", PyDict(n.headers)), isfile)
    ELSE RequestWithoutBody(method, url, n,
                            MapPop(MapSet(n.kwargs, "headers", PyDict(n.headers)), "data"),
                            IF "data" \in DOMAIN n.kwargs THEN n.kwargs["data"] ELSE PyNone)

\* Lines 313-378 up to the call of session.request.  c holds the arguments
\* (action_request, index, host, port, nodename, id, body, default, kwargs);
\* order is the iteration order of set(index); isfile is what
\* os.path.isfile(body) answers.  Gives the arguments of session.request,
\* or the exception raised before it is called.
PrepareRequest(self, c, order, isfile) ==
    BuildRequest(self,
                 HttpMethod(c.action_request, c.body),
                 build_url(self, c.action_request, c.index, c.host, c.port,
                           c.nodename, c.id, order),
                 Negotiate(KwargsWithParams(c.kwargs),
                           DefaultHeaders(self, KwargsWithParams(c.kwargs)),
                           c.body),
                 isfile)

(***************************************************************************)
(* __init__.py : Xapiand._send_request, after the transport call           *)
(* (lines 380-417)                                                         *)
(***************************************************************************)

\* Response bodies.  A body is a document in a wire format: wf is "json",
\* "msgpack", or "raw" for bytes that are neither.  A document is a tree:
\* objects are sequences of key/value pairs, as they appear on the wire.
WObj(pairs) == [w |-> "obj", pairs |-> pairs]

WArr(items) == [w |-> "arr", items |-> items]

WInt(i) == [w |-> "int", i |-> i]

WStr(s) == [w |-> "str", s |-> s]

\* a number written with a fraction or an exponent: coef * 10^exp
WFlt(coef, exp) == [w |-> "flt", coef |-> coef, exp |-> exp]

WBool(b) == [w |-> "bool", b |-> b]

WNull == [w |-> "null"]

WPair(k, v) == [k |-> k, v |-> v]

\* json.loads / msgpack.loads with object_pairs_hook=DictObject (lines 397,
\* 399): every object becomes a DictObject built from its pairs, a later
\* pair replacing an earlier one with the same key.
RECURSIVE Loads(_)
Loads(doc) ==
    CASE doc.w = "obj" ->
            DictObject([k \in {doc.pairs[i].k : i \in 1..Len(doc.pairs)} |->
                LET last == CHOOSE i \in 1..Len(doc.pairs) :
                                /\ doc.pairs[i].k = k
                                /\ \A j \in (i + 1)..Len(doc.pairs) : doc.pairs[j].k # k
                IN  Loads(doc.pairs[last].v)])
      [] doc.w = "arr"  -> PyList([i \in 1..Len(doc.items) |-> Loads(doc.items[i])])
      [] doc.w = "int"  -> PyInt(doc.i)
      [] doc.w = "str"  -> PyStr(doc.s)
      [] doc.w = "flt"  -> PyFloatOf(doc.coef, doc.exp)
      [] doc.w = "bool" -> PyBool(doc.b)
      [] doc.w = "null" -> PyNone

\* httpx.Response.raise_for_status, for the 2xx, 4xx and 5xx codes: it
\* raises HTTPStatusError unless the status is a success
RaisesForStatus(res) == res.status_code \notin 200..299

\* Lines 406-409: the three renames.  results is truthy.
RenameHits(results) ==
    IF results.t # "dict"
    THEN [ok |-> FALSE, exc |-> IF results.t = "list" THEN "TypeError" ELSE "AttributeError"]
    ELSE IF \E k \in {"#hits", "#total_count", "#matches_estimated"} : k \notin DOMAIN results.d
    THEN [ok |-> FALSE, exc |-> "KeyError"]
    ELSE LET d1 == MapSet(MapPop(results.d, "#hits"), "hits", results.d["#hits"])
             d2 == MapSet(MapPop(d1, "#total_count"), "count", d1["#total_count"])
             d3 == MapSet(MapPop(d2, "#matches_estimated"), "total", d2["#matches_estimated"])
         IN  [ok |-> TRUE, results |-> [results EXCEPT !.d = d3]]

\* mutant: count and total are taken from each other's key
Normalize_swapped_counts(content) ==
    IF content.t # "dict"
    THEN Raise(IF content.t = "list" THEN "TypeError" ELSE "AttributeError", TRUE)
    ELSE
    LET hasQ    == RESPONSE_QUERY \in DOMAIN content.d
        results == IF hasQ THEN content.d[RESPONSE_QUERY] ELSE DictObject(EmptyMap)
        hasA    == RESPONSE_AGGREGATIONS \in DOMAIN content.d
        agg     == IF hasA THEN content.d[RESPONSE_AGGREGATIONS] ELSE DictObject(EmptyMap)
        rest    == [content EXCEPT !.d = MapPop(MapPop(content.d, RESPONSE_QUERY),
                                                RESPONSE_AGGREGATIONS)]
        renamed == IF Truthy(results) THEN RenameHits(results)
                   ELSE [ok |-> TRUE, results |-> results]
        swapped == [renamed.results EXCEPT !.d =
                        MapSet(MapSet(@, "count", renamed.results.d["total"]),
                               "total", renamed.results.d["count"])]
        r1      == IF Truthy(results) THEN swapped ELSE renamed.results
    IN  IF ~renamed.ok THEN Raise(renamed.exc, TRUE)
        ELSE IF Truthy(agg) /\ r1.t # "dict" THEN Raise("TypeError", TRUE)
        ELSE LET r2 == IF Truthy(agg)
                       THEN [r1 EXCEPT !.d = MapSet(r1.d, "aggregations", agg)]
                       ELSE r1
             IN  IF Truthy(r2) THEN Return(r2, TRUE) ELSE Return(rest, TRUE)

\* Lines 403-417: response normalization of the decoded content
Normalize(content) ==
    IF content.t # "dict"
    THEN \* content.pop(key, default) on a list, or on a value with no pop
         Raise(IF content.t = "list" THEN "TypeError" ELSE "AttributeError", TRUE)
    ELSE
    LET hasQ    == RESPONSE_QUERY \in DOMAIN content.d
        results == IF hasQ THEN content.d[RESPONSE_QUERY] ELSE DictObject(EmptyMap)
        hasA    == RESPONSE_AGGREGATIONS \in DOMAIN content.d
        agg     == IF hasA THEN content.d[RESPONSE_AGGREGATIONS] ELSE DictObject(EmptyMap)
        \* content after the two pops
        rest    == [content EXCEPT !.d = MapPop(MapPop(content.d, RESPONSE_QUERY),
                                                RESPONSE_AGGREGATIONS)]
        renamed == IF Truthy(results) THEN RenameHits(results)
                   ELSE [ok |-> TRUE, results |-> results]
    IN  IF ~renamed.ok THEN Raise(renamed.exc, TRUE)
        ELSE IF Truthy(agg) /\ renamed.results.t # "dict"
        THEN \* results['aggregations'] = agg on None, a number, a string or a list
             Raise("TypeError", TRUE)
        ELSE LET r2 == IF Truthy(agg)
                       THEN [renamed.results EXCEPT
                                !.d = MapSet(renamed.results.d, "aggregations", agg)]
                       ELSE renamed.results
             IN  IF Truthy(r2) THEN Return(r2, TRUE) ELSE Return(rest, TRUE)

\* mutant: a body under any other content type is parsed as JSON when it
\* can be
DecodeAndNormalize_sniffs_json(res) ==
    LET content_type == IF "content-type" \in DOMAIN res.headers
                        THEN res.headers["content-type"] ELSE <<>>
        is_msgpack   == IsSubstring(S_msgpack, content_type)
        is_json      == IsSubstring(S_json, content_type)
        format       == IF is_msgpack THEN "msgpack" ELSE "json"
    IN  IF ~is_msgpack /\ ~is_json /\ res.content.wf # "json"
        THEN Return([t |-> "bytes", content |-> res.content], FALSE)
        ELSE IF res.content.wf # format
        THEN Raise("DecodeError", TRUE)
        ELSE Normalize(Loads(res.content.doc))

\* Lines 392-401: decoding by the response's content-type header
DecodeAndNormalize(res) ==
    LET content_type == IF "content-type" \in DOMAIN res.headers
                        THEN res.headers["content-type"] ELSE <<>>
        is_msgpack   == IsSubstring(S_msgpack, content_type)
        is_json      == IsSubstring(S_json, content_type)
        format       == IF is_msgpack THEN "msgpack" ELSE "json"
    IN  IF ~is_msgpack /\ ~is_json
        THEN Return([t |-> "bytes", content |-> res.content], FALSE)
        ELSE IF res.content.wf # format
        THEN \* the body does not parse in the format the header names
             Raise("DecodeError", TRUE)
        ELSE Normalize(Loads(res.content.doc))

NotFoundActions == {"patch", "merge", "delete", "get"}

\* mutant: a falsy default counts as no default
ProcessResponse_falsy_default(c, res) ==
    IF res.status_code = 404 /\ c.action_request \in NotFoundActions
    THEN IF ~Truthy(c.default) \/ c.default = NA
         THEN Raise("NotFoundError", FALSE)
         ELSE Return(c.default, FALSE)
    ELSE IF RaisesForStatus(res)
         THEN Raise("HTTPStatusError", FALSE)
         ELSE DecodeAndNormalize(res)

\* mutant: a 404 is handled as not-found for every action
ProcessResponse_404_any_action(c, res) ==
    IF res.status_code = 404
    THEN IF c.default = NA
         THEN Raise("NotFoundError", FALSE)
         ELSE Return(c.default, FALSE)
    ELSE IF RaisesForStatus(res)
         THEN Raise("HTTPStatusError", FALSE)
         ELSE DecodeAndNormalize(res)

\* Lines 380-417: what _send_request does with the response
ProcessResponse(c, res) ==
    IF res.status_code = 404 /\ c.action_request \in NotFoundActions
    THEN IF c.default = NA
         THEN Raise("NotFoundError", FALSE)
         ELSE Return(c.default, FALSE)
    ELSE IF RaisesForStatus(res)
         THEN Raise("HTTPStatusError", FALSE)
         ELSE DecodeAndNormalize(res)

(***************************************************************************)
(* URL builder inputs                                                      *)
(***************************************************************************)
S_localhost == <<"l", "o", "c", "a", "l", "h", "o", "s", "t">>

S_default == <<"d", "e", "f", "a", "u", "l", "t">>

S_myindex == <<"m", "y", "i", "n", "d", "e", "x">>

Clients ==
    {Xapiand(PyStr(S_localhost), PyInt(8880), PyNone, PyStr(S_default), PyStr(S_json)),
     Xapiand(PyStr(<<"x", ":", "7", "0">>), PyNone, PyNone, PyNone, PyNone)}

IndexInputs ==
    {PyStr(S_myindex),
     PyStr(<<"a", ",", "b">>),
     PyStr(<<"a", ",", "a">>),
     PyStr(<<"a", ",", "/", "a">>),
     PyStr(<<"/", "a", "/", "b", "/">>),
     [t |-> "list", items |-> <<<<"i", "1">>, <<"i", "2">>, <<"i", "1">>>>],
     [t |-> "set", items |-> {<<"i", "1">>, <<"i", "2", "/">>}]}

HostInputs ==
    {PyNone, PyStr(<<>>), PyStr(<<"o", "t", "h">>), PyStr(<<"h", ":", "7", "7">>),
     PyStr(<<"h", ":">>), PyStr(<<":", "7", "7">>)}

PortInputs == {PyNone, PyStr(<<>>), PyInt(9999), PyStr(<<"9", "0">>), PyInt(0)}

NodeInputs == {PyNone, PyStr(<<>>), PyStr(<<"n", "1">>)}

IdInputs == {PyNone, PyStr(<<"d", "o", "c", "1">>)}

(***************************************************************************)
(* URL builder state machine: one _build_url call on a constructed client  *)
(***************************************************************************)
EncoderIdle == buf = <<>> /\ src = [kind |-> "raw"] /\ dec = NoCall

UrlIdle == urlCall = NoCall /\ urlOut = NoCall

DispatcherIdle ==
    /\ pc = "idle"
    /\ call = NoCall
    /\ request = NoCall
    /\ sent = 0
    /\ response = NoCall
    /\ outcome = NoCall

InitUrl ==
    /\ client \in Clients
    /\ UrlIdle
    /\ EncoderIdle
    /\ DispatcherIdle

BuildUrl ==
    /\ urlCall = NoCall
    /\ \E action_request \in Actions, index \in IndexInputs, host \in HostInputs,
          port \in PortInputs, nodename \in NodeInputs, id \in IdInputs :
           \E order \in Orderings(IndexTokens(index)) :
               /\ urlCall' = [op |-> "_build_url", action_request |-> action_request,
                              index |-> index, host |-> host, port |-> port,
                              nodename |-> nodename, id |-> id, order |-> order]
               /\ urlOut' = build_url(client, action_request, index, host, port,
                                      nodename, id, order)
    /\ UNCHANGED <<client, encVars, dispVars>>

NextUrl == BuildUrl

SpecUrl == InitUrl /\ [][NextUrl]_vars

(***************************************************************************)
(* Encoder inputs                                                          *)
(***************************************************************************)
MaxLength == 400
MaxStrLen == 2
MaxRawLen == 4

\* lengths around the points where the encoding grows by one character:
\* 255 + 128^2 and 255 + 128^3
BoundaryLengths == {16638, 16639, 16640, 100000, 2097406, 2097407, 2097408}

LengthInputs == (0..MaxLength) \cup BoundaryLengths

Tails == {<<>>, <<65>>, <<255, 128>>, <<128, 0>>}

StrAlphabet == {0, 65, 128, 255}

LongLengths == {254, 255, 256, 383}

StringInputs ==
    SeqsUpTo(StrAlphabet, MaxStrLen)
        \cup {Fill(n, c) : n \in LongLengths, c \in StrAlphabet}

\* 300 is a character above the byte range, which a Python str can hold
RawAlphabet == {0, 2, 128, 130, 255, 300}

RawInputs == SeqsUpTo(RawAlphabet, MaxRawLen)

(***************************************************************************)
(* Encoder state machine: a caller encodes a length or a string, or loads  *)
(* arbitrary data, and then decodes the buffer.                            *)
(***************************************************************************)
InitEncoder ==
    /\ buf \in RawInputs
    /\ src = [kind |-> "raw"]
    /\ dec = NoCall
    /\ client = NoCall
    /\ UrlIdle
    /\ DispatcherIdle

SerialiseLength ==
    /\ src.kind = "raw"
    /\ dec = NoCall
    /\ buf = <<>>
    /\ \E n \in LengthInputs, tail \in Tails :
           /\ buf' = serialise_length(n) \o tail
           /\ src' = [kind |-> "length", n |-> n, tail |-> tail,
                      encoded |-> serialise_length(n)]
    /\ dec' = NoCall
    /\ UNCHANGED <<client, urlVars, dispVars>>

SerialiseString ==
    /\ src.kind = "raw"
    /\ dec = NoCall
    /\ buf = <<>>
    /\ \E s \in StringInputs, tail \in Tails :
           /\ buf' = serialise_string(s) \o tail
           /\ src' = [kind |-> "string", s |-> s, tail |-> tail,
                      encoded |-> serialise_string(s)]
    /\ dec' = NoCall
    /\ UNCHANGED <<client, urlVars, dispVars>>

UnserialiseLength ==
    /\ dec = NoCall
    /\ \E check_remaining \in BOOLEAN :
           dec' = [op |-> "length", check |-> check_remaining,
                   res |-> unserialise_length(buf, check_remaining)]
    /\ UNCHANGED <<buf, src, client, urlVars, dispVars>>

UnserialiseString ==
    /\ dec = NoCall
    /\ dec' = [op |-> "string", res |-> unserialise_string(buf)]
    /\ UNCHANGED <<buf, src, client, urlVars, dispVars>>

NextEncoder ==
    \/ SerialiseLength
    \/ SerialiseString
    \/ UnserialiseLength
    \/ UnserialiseString

SpecEncoder == InitEncoder /\ [][NextEncoder]_vars

(***************************************************************************)
(* Dispatcher inputs                                                       *)
(***************************************************************************)
S_x == <<"x">>

S_schema == <<"/", "s", "/">>

S_json_charset == <<"a", "p", "p", "l", "i", "c", "a", "t", "i", "o", "n", "/", "j", "s", "o", "n", ";", " ", "c", "h", "a", "r", "s", "e", "t", "=", "u", "t", "f", "-", "8">>

S_text == <<"t", "e", "x", "t", "/", "p", "l", "a", "i", "n">>

S_both == <<"a", "p", "p", "l", "i", "c", "a", "t", "i", "o", "n", "/", "x", "-", "m", "s", "g", "p", "a", "c", "k", ",", " ", "a", "p", "p", "l", "i", "c", "a", "t", "i", "o", "n", "/", "j", "s", "o", "n">>

\* values passed as default=
DefaultInputs == {NA, PyNone, PyInt(0), PyDict(EmptyMap), PyStr(S_x)}

\* (body, kwargs) pairs passed to _send_request
BodyInputs ==
    {[body |-> PyNone, kwargs |-> EmptyMap],
     [body |-> PyDict([k \in {"_schema", "n"} |->
                        IF k = "_schema" THEN PyStr(S_schema) ELSE PyInt(1)]),
      kwargs |-> EmptyMap],
     [body |-> PyDict([k \in {"_schema"} |-> PyInt(3)]), kwargs |-> EmptyMap],
     [body |-> PyNone,
      kwargs |-> [k \in {"params"} |->
                    PyDictOf(<<<<<<"c", "o", "m", "m", "i", "t">>, PyBool(FALSE)>>, <<<<"a", "_", "_", "b">>, PyInt(1)>>>>)]],
     [body |-> PyStr(S_x), kwargs |-> EmptyMap]}

\* the '#query' envelopes a server can send (absent: "none")
HitList == WArr(<<WObj(<<WPair("id", WInt(1))>>)>>)

FullQuery ==
    <<WPair("#hits", HitList), WPair("#total_count", WInt(100)),
      WPair("#matches_estimated", WInt(150))>>

QueryInputs ==
    {WObj(<<>>),
     WObj(FullQuery),
     WObj(FullQuery \o <<WPair("#took", WInt(7))>>),
     WObj(<<WPair("#hits", HitList), WPair("#total_count", WInt(100))>>),
     WArr(<<WInt(1)>>),
     WArr(<<>>),
     WNull}

AggInputs ==
    {WObj(<<>>),
     WObj(<<WPair("_aggregations", WObj(<<WPair("n", WInt(2))>>))>>),
     WArr(<<WInt(1)>>)}

ExtraInputs == {<<>>, <<WPair("#took", WInt(7))>>}

\* objects with every combination of envelope keys
EnvelopeDocs ==
    {WObj(q \o a \o x) :
        q \in {<<>>} \cup {<<WPair(RESPONSE_QUERY, v)>> : v \in QueryInputs},
        a \in {<<>>} \cup {<<WPair(RESPONSE_AGGREGATIONS, v)>> : v \in AggInputs},
        x \in ExtraInputs}

\* documents that are not an object, and an object that repeats a key
OtherDocs ==
    {WArr(<<WInt(1)>>), WInt(5), WNull,
     WObj(<<WPair(RESPONSE_QUERY, WObj(<<>>)), WPair(RESPONSE_QUERY, WObj(FullQuery))>>)}

SimpleDoc == WObj(<<WPair("_id", WInt(1))>>)

\* documents with numbers, dates and times in them
ScalarDocs ==
    {WObj(<<WPair("price", WFlt(1999, 0 - 2))>>),
     WObj(<<WPair("day", WStr(<<"2", "0", "2", "5", "-", "0", "6", "-", "1", "5">>))>>),
     WObj(<<WPair("at", WStr(<<"1", "2", ":", "3", "0", ":", "4", "5">>))>>),
     WObj(<<WPair("when", WStr(<<"2", "0", "2", "5", "-", "0", "6", "-", "1", "5", "T", "1", "2", ":", "3", "0", ":", "4", "5">>)),
            WPair("items", WArr(<<WFlt(15, 0 - 1), WObj(<<WPair("d", WStr(<<"2", "0", "2", "4", "-", "0", "2", "-", "2", "9">>))>>)>>))>>),
     WObj(<<WPair("n", WInt(1)), WPair("ok", WBool(TRUE)), WPair("nil", WNull),
            WPair("month", WStr(<<"2", "0", "2", "5", "-", "0", "6">>)),
            WPair("bad", WStr(<<"2", "0", "2", "5", "-", "0", "2", "-", "3", "0">>))>>)}

ExampleDoc ==
    WObj(<<WPair(RESPONSE_QUERY, WObj(FullQuery)),
           WPair(RESPONSE_AGGREGATIONS,
                 WObj(<<WPair("_aggregations", WObj(<<WPair("n", WInt(2))>>))>>))>>)

Body(wf, doc) == [wf |-> wf, doc |-> doc]

ContentType(s) == [k \in {"content-type"} |-> s]

Response(status_code, headers, content) ==
    [op |-> "response", status_code |-> status_code, headers |-> headers,
     content |-> content]

\* what the server answers with a success status
SuccessResponses ==
    {Response(200, ContentType(S_json), Body("json", d)) : d \in EnvelopeDocs \cup OtherDocs}
    \cup {Response(200, ContentType(S_msgpack), Body("msgpack", d)) :
            d \in {SimpleDoc, ExampleDoc, WArr(<<WInt(1)>>)}}
    \cup {Response(201, ContentType(S_json_charset), Body("json", d)) :
            d \in {SimpleDoc, ExampleDoc}}
    \cup {Response(200, ContentType(S_both), Body(wf, ExampleDoc)) : wf \in {"json", "msgpack"}}
    \cup {Response(200, h, Body(wf, ExampleDoc)) :
            h \in {EmptyMap, ContentType(S_text)}, wf \in {"json", "raw"}}
    \cup {Response(200, ContentType(S_json), Body("raw", WNull))}
    \cup {Response(200, ContentType(S_json), Body("json", d)) : d \in ScalarDocs}
    \cup {Response(200, ContentType(S_msgpack), Body("msgpack", d)) : d \in ScalarDocs}

ErrorStatuses == {400, 404, 500}

\* what the server answers with an error status
ErrorResponses ==
    {Response(s, h, b) :
        s \in ErrorStatuses,
        h \in {EmptyMap, ContentType(S_json)},
        b \in {Body("raw", WNull), Body("json", ExampleDoc)}}

Responses == SuccessResponses \cup ErrorResponses

(***************************************************************************)
(* Dispatcher state machine: one _send_request invocation on a constructed *)
(* client.  The coroutine runs to the await of session.request, the        *)
(* transport answers or fails, and the coroutine runs to its end.          *)
(***************************************************************************)
Init ==
    /\ client \in Clients
    /\ DispatcherIdle
    /\ EncoderIdle
    /\ UrlIdle

\* a _send_request invocation with the given arguments; isfile is what
\* os.path.isfile answers for a string body
SendRequestCall(action_request, id, body, default, kwargs, isfile) ==
    [op |-> "_send_request", action_request |-> action_request,
     index |-> PyStr(S_myindex), host |-> PyNone, port |-> PyNone,
     nodename |-> PyNone, id |-> id,
     body |-> body, default |-> default, kwargs |-> kwargs,
     isfile |-> isfile]

\* the one order in which the single index of the calls is iterated
IndexOrder(index) == CHOOSE o \in Orderings(IndexTokens(index)) : TRUE

\* lines 313-369/378: the invocation c runs up to the transport call, or
\* to the exception raised before it
Invoke(c) ==
    LET prep == PrepareRequest(client, c, IndexOrder(c.index), c.isfile)
    IN  /\ call' = c
        /\ IF prep.ok
           THEN /\ request' = [op |-> "request"] @@ prep.request
                /\ sent' = sent + 1
                /\ pc' = "awaiting"
                /\ outcome' = outcome
           ELSE /\ outcome' = Raise(prep.exc, FALSE)
                /\ pc' = "done"
                /\ UNCHANGED <<request, sent>>

\* _send_request is called with every action, default and body
SendRequest ==
    /\ pc = "idle"
    /\ \E action_request \in Actions, default \in DefaultInputs, b \in BodyInputs :
         \E isfile \in (IF b.body.t = "str" THEN BOOLEAN ELSE {FALSE}) :
           Invoke(SendRequestCall(action_request, PyStr(S_x), b.body, default,
                                  b.kwargs, isfile))
    /\ UNCHANGED <<client, response, encVars, urlVars>>

\* mutant: a request answered with an error status is sent once more
Respond_retries ==
    /\ pc = "awaiting"
    /\ \E res \in Responses :
           /\ response' = res
           /\ IF RaisesForStatus(res) /\ sent < 2
              THEN /\ sent' = sent + 1
                   /\ pc' = "awaiting"
                   /\ outcome' = outcome
              ELSE /\ sent' = sent
                   /\ pc' = "done"
                   /\ outcome' = ProcessResponse(call, res)
    /\ UNCHANGED <<client, call, request, encVars, urlVars>>

\* lines 369/378 resume with a response; lines 380-417 run to the end
Respond ==
    /\ pc = "awaiting"
    /\ \E res \in Responses :
           /\ response' = res
           /\ outcome' = ProcessResponse(call, res)
    /\ pc' = "done"
    /\ UNCHANGED <<client, call, request, sent, encVars, urlVars>>

\* session.request raises (connection refused, timeout): it propagates
TransportFails ==
    /\ pc = "awaiting"
    /\ outcome' = Raise("TransportError", FALSE)
    /\ pc' = "done"
    /\ UNCHANGED <<client, call, request, sent, response, encVars, urlVars>>

(***************************************************************************)
(* __init__.py : the methods of the client (lines 419-834).  A method      *)
(* takes its arguments as a record a and gives the action and the keyword  *)
(* arguments of the one _send_request call it makes, or the exception it   *)
(* raises before that call.  In a.kwargs and a.kw keywords are named as in *)
(* the kwargs of _send_request; a.kw holds at most one keyword.            *)
(***************************************************************************)
OFFSET_LIMIT == 100000

\* kwargs holding the one keyword k
Kw(k, v) == [x \in {k} |-> v]

N_commit == <<"c", "o", "m", "m", "i", "t">>

N_volatile == <<"v", "o", "l", "a", "t", "i", "l", "e">>

N_pretty == <<"p", "r", "e", "t", "t", "y">>

N_indent == <<"i", "n", "d", "e", "n", "t">>

N_query == <<"q", "u", "e", "r", "y">>

N_partial == <<"p", "a", "r", "t", "i", "a", "l">>

N_terms == <<"t", "e", "r", "m", "s">>

N_limit == <<"l", "i", "m", "i", "t">>

N_check_at_least == <<"c", "h", "e", "c", "k", "_", "a", "t", "_", "l", "e", "a", "s", "t">>

N_sort == <<"s", "o", "r", "t">>

N_language == <<"l", "a", "n", "g", "u", "a", "g", "e">>

N_offset == <<"o", "f", "f", "s", "e", "t">>

\* a float: finite with the given integral part, or inf, or nan
PyFloat(kind, trunc) == [t |-> "float", kind |-> kind, trunc |-> trunc]

DecimalDigits == {"0", "1", "2", "3", "4", "5", "6", "7", "8", "9"}

DigitValue(ch) == CHOOSE d \in 0..9 : DigitChar(d) = ch

\* the number a string of decimal digits spells
RECURSIVE DigitsValue(_)
DigitsValue(s) ==
    IF s = <<>> THEN 0
    ELSE DigitsValue(SubSeq(s, 1, Len(s) - 1)) * 10 + DigitValue(s[Len(s)])

IsDigits(s) == s # <<>> /\ \A i \in 1..Len(s) : s[i] \in DecimalDigits

Unsigned(s) == IF s # <<>> /\ s[1] \in {"+", "-"} THEN Tail(s) ELSE s

\* int(s) for a string: blanks around, an optional sign, decimal digits
IntOfStr(s) ==
    IF IsDigits(Unsigned(Strip(s, " ")))
    THEN [ok |-> TRUE,
          i  |-> IF Strip(s, " ")[1] = "-"
                 THEN 0 - DigitsValue(Unsigned(Strip(s, " ")))
                 ELSE DigitsValue(Unsigned(Strip(s, " ")))]
    ELSE [ok |-> FALSE, exc |-> "ValueError"]

\* int(v), line 472
IntOf(v) ==
    CASE v.t = "int"   -> [ok |-> TRUE, i |-> v.i]
      [] v.t = "bool"  -> [ok |-> TRUE, i |-> IF v.b THEN 1 ELSE 0]
      [] v.t = "str"   -> IntOfStr(v.s)
      [] v.t = "float" -> IF v.kind = "finite" THEN [ok |-> TRUE, i |-> v.trunc]
                          ELSE IF v.kind = "inf"
                          THEN [ok |-> FALSE, exc |-> "OverflowError"]
                          ELSE [ok |-> FALSE, exc |-> "ValueError"]
      [] OTHER         -> [ok |-> FALSE, exc |-> "TypeError"]

\* kwargs = kwargs or {}: the mapping the method goes on with
OrEmpty(kwargs) == IF Truthy(kwargs) THEN kwargs.d ELSE EmptyMap

\* d.update(e) on a mapping
MapUpdate(d, e) == e @@ d

\* the name of a keyword, as a parameter name
Spelling(k) ==
    CASE k = "limit"  -> N_limit
      [] k = "offset" -> N_offset
      [] k = "commit" -> N_commit

\* the (name, value) pairs of the keywords kw
KeywordItems(kw) ==
    IF DOMAIN kw = {} THEN <<>>
    ELSE <<<<Spelling(CHOOSE k \in DOMAIN kw : TRUE), kw[CHOOSE k \in DOMAIN kw : TRUE]>>>>

IsGiven(item) == item[2] # PyNone

\* the pairs of those optional arguments that are not None
GivenItems(items) == SelectSeq(items, IsGiven)

\* lines 470-484: the offset parameter, none for an offset of None
OffsetItems(offset) ==
    IF offset = PyNone THEN <<>>
    ELSE IF ~IntOf(offset).ok THEN <<<<N_offset, PyInt(0)>>>>
    ELSE IF IntOf(offset).i > OFFSET_LIMIT THEN <<<<N_offset, PyInt(0)>>>>
    ELSE <<<<N_offset, PyInt(IntOf(offset).i)>>>>

\* what a method does: one _send_request call, or an exception
SendRequestWith(action_request, kwargs) ==
    [ok |-> TRUE, action_request |-> action_request, kwargs |-> kwargs]

MethodRaises(exc) == [ok |-> FALSE, exc |-> exc]

\* lines 450-485
search(self, a) ==
    IF a.offset # PyNone /\ ~IntOf(a.offset).ok /\ IntOf(a.offset).exc # "ValueError"
    THEN MethodRaises(IntOf(a.offset).exc)
    ELSE SendRequestWith("search",
             MapSet(MapUpdate(OrEmpty(a.kwargs), a.kw), "params",
                 PyDictOf(<<<<N_pretty, a.pretty>>, <<N_volatile, a.volatile>>>>
                          \o GivenItems(<<<<N_query, a.query>>,
                                          <<N_partial, a.partial>>,
                                          <<N_terms, a.terms>>,
                                          <<N_limit, a.limit>>,
                                          <<N_check_at_least, a.check_at_least>>,
                                          <<N_sort, a.sort>>,
                                          <<N_language, a.language>>>>)
                          \o OffsetItems(a.offset))))

\* lines 500-504
stats(self, a) ==
    SendRequestWith("stats",
        MapSet(OrEmpty(a.kwargs), "params", PyDictOf(<<<<N_pretty, a.pretty>>>>)))

\* lines 520-525
head(self, a) ==
    SendRequestWith("head",
        MapSet(MapSet(OrEmpty(a.kwargs), "id", a.id),
               "params", PyDictOf(<<<<N_pretty, a.pretty>>>>)))

\* kwargs['body'] = body when body is not None, lines 557-558
WithBody(kwargs, body) == IF body # PyNone THEN MapSet(kwargs, "body", body) ELSE kwargs

\* lines 549-559
count(self, a) ==
    SendRequestWith("search",
        WithBody(MapSet(OrEmpty(a.kwargs), "params",
                     PyDictOf(<<<<N_pretty, a.pretty>>, <<N_volatile, a.volatile>>>>
                              \o KeywordItems(a.kw)
                              \o GivenItems(<<<<N_query, a.query>>>>))),
                 a.body))

\* kwargs['headers'] = {'accept': accept} when accept is not None, lines 588-590
WithAccept(kwargs, accept) ==
    IF accept # PyNone
    THEN MapSet(kwargs, "headers", PyDict(Kw("accept", accept)))
    ELSE kwargs

\* lines 586-597
get(self, a) ==
    SendRequestWith("get",
        MapSet(MapSet(WithAccept(MapSet(OrEmpty(a.kwargs), "id", a.id), a.accept),
                      "params",
                      PyDictOf(<<<<N_pretty, a.pretty>>, <<N_volatile, a.volatile>>>>)),
               "default", a.default))

\* mutant: a per-call commit of False falls back to the client's
EffectiveCommit_or_client(self, commit) == IF Truthy(commit) THEN commit ELSE self.commit

\* self.commit if commit is None else commit
EffectiveCommit(self, commit) == IF commit = PyNone THEN self.commit ELSE commit

\* dict(commit=..., pretty=pretty)
WriteParams(self, a) ==
    PyDictOf(<<<<N_commit, EffectiveCommit(self, a.commit)>>, <<N_pretty, a.pretty>>>>)

\* lines 618-624
delete(self, a) ==
    SendRequestWith("delete",
        MapSet(MapSet(OrEmpty(a.kwargs), "id", a.id), "params", WriteParams(self, a)))

\* lines 643-649
post(self, a) ==
    SendRequestWith("post",
        MapSet(MapSet(OrEmpty(a.kwargs), "body", a.body), "params", WriteParams(self, a)))

\* kwargs after id, body and params are set, as put, patch, merge and store do
IdBodyParams(self, kwargs, a) ==
    MapSet(MapSet(MapSet(kwargs, "id", a.id), "body", a.body),
           "params", WriteParams(self, a))

\* lines 669-676
put(self, a) == SendRequestWith("put", IdBodyParams(self, OrEmpty(a.kwargs), a))

\* line 696
index_(self, a) == put(self, a)

\* lines 722-729
patch(self, a) == SendRequestWith("patch", IdBodyParams(self, OrEmpty(a.kwargs), a))

\* kwargs.setdefault('headers', {}); kwargs['headers']['content-type'] = ...
\* (lines 758-759, 801-802); a headers entry is a dict
WithContentType(kwargs, content_type) ==
    IF content_type # PyNone
    THEN MapSet(kwargs, "headers",
             PyDict(MapSet(IF "headers" \in DOMAIN kwargs
                           THEN kwargs["headers"].d ELSE EmptyMap,
                           "content-type", content_type)))
    ELSE kwargs

\* lines 797-807
merge(self, a) ==
    SendRequestWith("merge",
        IdBodyParams(self, WithContentType(OrEmpty(a.kwargs), a.content_type), a))

\* lines 827-834
store(self, a) == SendRequestWith("store", IdBodyParams(self, OrEmpty(a.kwargs), a))

\* lines 756-769
update(self, a) ==
    IF a.content_type # PyNone
    THEN put(self, [a EXCEPT !.kwargs =
                       PyDict(WithContentType(OrEmpty(a.kwargs), a.content_type))])
    ELSE merge(self, [a EXCEPT !.kwargs = PyDict(OrEmpty(a.kwargs))])

\* the method named a.fn, called with the arguments a
CallOf(self, a) ==
    CASE a.fn = "search" -> search(self, a)
      [] a.fn = "stats"  -> stats(self, a)
      [] a.fn = "head"   -> head(self, a)
      [] a.fn = "count"  -> count(self, a)
      [] a.fn = "get"    -> get(self, a)
      [] a.fn = "delete" -> delete(self, a)
      [] a.fn = "post"   -> post(self, a)
      [] a.fn = "put"    -> put(self, a)
      [] a.fn = "index"  -> index_(self, a)
      [] a.fn = "patch"  -> patch(self, a)
      [] a.fn = "update" -> update(self, a)
      [] a.fn = "merge"  -> merge(self, a)
      [] a.fn = "store"  -> store(self, a)

\* the keywords _send_request binds to its named parameters
NamedParameters == {"host", "port", "nodename", "id", "body", "default"}

Argument(kwargs, name, default) == IF name \in DOMAIN kwargs THEN kwargs[name] ELSE default

\* self._send_request(action_request, index, **kwargs), made by the method
\* call a
SendRequestVia(a, action_request, kwargs, isfile) ==
    [via |-> a] @@
    SendRequestCall(action_request,
                    Argument(kwargs, "id", PyNone),
                    Argument(kwargs, "body", PyNone),
                    Argument(kwargs, "default", NA),
                    [k \in (DOMAIN kwargs) \ NamedParameters |-> kwargs[k]],
                    isfile)

(***************************************************************************)
(* Scalar codec: _serialize_default and _deserialize_value.  The tests     *)
(* import both from the package; they are modelled from the specification  *)
(* (section 4.1) and from what the tests pin down.                         *)
(***************************************************************************)
\* float(d) for a Decimal within the precision of a float
FloatOfDecimal(d) ==
    IF d.coef = 0 THEN PyFloatOf(0, 0)
    ELSE PyFloatOf(d.coef \div Pow10(TrailingZeros(d.coef)), d.exp + TrailingZeros(d.coef))

\* Decimal(str(f)): str names an integral float with one zero after the point
DecimalOfFloat(f) ==
    IF f.exp >= 0 THEN PyDecimal(f.coef * Pow10(f.exp + 1), 0 - 1)
    ELSE PyDecimal(f.coef, f.exp)

\* n as exactly w decimal digits
RECURSIVE Padded(_, _)
Padded(n, w) == IF w = 0 THEN <<>> ELSE Padded(n \div 10, w - 1) \o <<DigitChar(n % 10)>>

\* date.isoformat()
IsoDate(d) == Padded(d.y, 4) \o <<"-">> \o Padded(d.m, 2) \o <<"-">> \o Padded(d.d, 2)

\* the UTC offset as isoformat writes it
IsoOffset(tz) ==
    IF tz = PyNone THEN <<>>
    ELSE (IF tz.minutes < 0 THEN <<"-">> ELSE <<"+">>)
         \o Padded((IF tz.minutes < 0 THEN 0 - tz.minutes ELSE tz.minutes) \div 60, 2)
         \o <<":">>
         \o Padded((IF tz.minutes < 0 THEN 0 - tz.minutes ELSE tz.minutes) % 60, 2)

\* mutant: the fields of a time are written without leading zeros
IsoTime_unpadded(x) ==
    IntToStr(x.h) \o <<":">> \o IntToStr(x.mi) \o <<":">> \o IntToStr(x.s)
    \o (IF x.us = 0 THEN <<>> ELSE <<".">> \o Padded(x.us, 6))
    \o IsoOffset(x.tz)

\* time.isoformat()
IsoTime(x) ==
    Padded(x.h, 2) \o <<":">> \o Padded(x.mi, 2) \o <<":">> \o Padded(x.s, 2)
    \o (IF x.us = 0 THEN <<>> ELSE <<".">> \o Padded(x.us, 6))
    \o IsoOffset(x.tz)

\* the name of the type of a value, as the error message gives it
TypeName(v) ==
    CASE v.t = "none" -> "NoneType"
      [] v.t = "NA"   -> "object"
      [] OTHER        -> v.t

\* _serialize_default(obj): the wire form of a value that the format
\* cannot carry, or the TypeError that names its type
serialize_default(obj) ==
    CASE obj.t = "decimal"  -> [ok |-> TRUE, value |-> FloatOfDecimal(obj)]
      [] obj.t = "datetime" ->
             [ok |-> TRUE,
              value |-> PyStr(IsoDate(obj.date) \o <<"T">> \o IsoTime(obj.time))]
      [] obj.t = "date"     -> [ok |-> TRUE, value |-> PyStr(IsoDate(obj))]
      [] obj.t = "time"     -> [ok |-> TRUE, value |-> PyStr(IsoTime(obj))]
      [] OTHER              -> [ok |-> FALSE, exc |-> "TypeError", type |-> TypeName(obj)]

\* the n characters of s from position i are decimal digits
DigitsAt(s, i, n) ==
    /\ i + n - 1 <= Len(s)
    /\ \A j \in i..(i + n - 1) : s[j] \in DecimalDigits

\* the number they spell
NumberAt(s, i, n) == DigitsValue(SubSeq(s, i, i + n - 1))

IsLeapYear(y) == (y % 4 = 0 /\ y % 100 # 0) \/ y % 400 = 0

DaysInMonth(y, m) ==
    IF m = 2 THEN (IF IsLeapYear(y) THEN 29 ELSE 28)
    ELSE IF m \in {4, 6, 9, 11} THEN 30 ELSE 31

\* s has the shape YYYY-MM-DD
DateShape(s) ==
    /\ Len(s) = 10
    /\ DigitsAt(s, 1, 4) /\ s[5] = "-" /\ DigitsAt(s, 6, 2) /\ s[8] = "-"
    /\ DigitsAt(s, 9, 2)

\* date.fromisoformat(s) for s of that shape: the date, or ValueError
ParseDate(s) ==
    IF /\ NumberAt(s, 1, 4) >= 1
       /\ NumberAt(s, 6, 2) \in 1..12
       /\ NumberAt(s, 9, 2) \in 1..DaysInMonth(NumberAt(s, 1, 4), NumberAt(s, 6, 2))
    THEN [ok |-> TRUE,
          value |-> PyDate(NumberAt(s, 1, 4), NumberAt(s, 6, 2), NumberAt(s, 9, 2))]
    ELSE [ok |-> FALSE, exc |-> "ValueError"]

\* the number of decimal digits s starts with
RECURSIVE LeadingDigits(_)
LeadingDigits(s) ==
    IF s # <<>> /\ s[1] \in DecimalDigits THEN 1 + LeadingDigits(Tail(s)) ELSE 0

\* the length of the fraction '.ffffff' s starts with: 0 without one
FractionLength(s) ==
    IF s # <<>> /\ s[1] = "." /\ LeadingDigits(Tail(s)) >= 1
    THEN 1 + LeadingDigits(Tail(s))
    ELSE 0

\* s is a time zone suffix: nothing, Z, or +HH:MM / -HH:MM
OffsetShape(s) ==
    \/ s = <<>>
    \/ s = <<"Z">>
    \/ /\ Len(s) = 6
       /\ s[1] \in {"+", "-"} /\ DigitsAt(s, 2, 2) /\ s[4] = ":" /\ DigitsAt(s, 5, 2)

\* s has the shape HH:MM:SS[.f+][Z|+HH:MM|-HH:MM]
TimeShape(s) ==
    /\ Len(s) >= 8
    /\ DigitsAt(s, 1, 2) /\ s[3] = ":" /\ DigitsAt(s, 4, 2) /\ s[6] = ":"
    /\ DigitsAt(s, 7, 2)
    /\ OffsetShape(SubSeq(s, 9 + FractionLength(SubSeq(s, 9, Len(s))), Len(s)))

\* the microseconds a fraction '.f+' names (digits after the sixth dropped)
Microseconds(frac) ==
    IF frac = <<>> THEN 0
    ELSE DigitsValue(SubSeq(Tail(frac) \o <<"0", "0", "0", "0", "0", "0">>, 1, 6))

\* the tzinfo a suffix of that shape names, given it is in range
ParseOffset(s) ==
    IF s = <<>> THEN PyNone
    ELSE IF s = <<"Z">> THEN PyTz(0)
    ELSE PyTz((IF s[1] = "-" THEN 0 - 1 ELSE 1)
              * (NumberAt(s, 2, 2) * 60 + NumberAt(s, 5, 2)))

OffsetInRange(s) == Len(s) # 6 \/ (NumberAt(s, 2, 2) < 24 /\ NumberAt(s, 5, 2) < 60)

\* time.fromisoformat(s) for s of the shape of a time, of which frac is the
\* fraction and zone the suffix: the time, or ValueError
ParseTimeParts(s, frac, zone) ==
    IF /\ NumberAt(s, 1, 2) < 24 /\ NumberAt(s, 4, 2) < 60 /\ NumberAt(s, 7, 2) < 60
       /\ OffsetInRange(zone)
    THEN [ok |-> TRUE,
          value |-> PyTime(NumberAt(s, 1, 2), NumberAt(s, 4, 2), NumberAt(s, 7, 2),
                           Microseconds(frac), ParseOffset(zone))]
    ELSE [ok |-> FALSE, exc |-> "ValueError"]

ParseTime(s) ==
    ParseTimeParts(s,
        SubSeq(s, 9, 8 + FractionLength(SubSeq(s, 9, Len(s)))),
        SubSeq(s, 9 + FractionLength(SubSeq(s, 9, Len(s))), Len(s)))

\* s has the shape of a date, T or a blank, and a time
DateTimeShape(s) ==
    /\ Len(s) >= 19
    /\ DateShape(SubSeq(s, 1, 10))
    /\ s[11] \in {"T", " "}
    /\ TimeShape(SubSeq(s, 12, Len(s)))

\* datetime.fromisoformat(s) for s of that shape
ParseDateTime(s) ==
    IF ParseDate(SubSeq(s, 1, 10)).ok /\ ParseTime(SubSeq(s, 12, Len(s))).ok
    THEN [ok |-> TRUE,
          value |-> PyDateTime(ParseDate(SubSeq(s, 1, 10)).value,
                               ParseTime(SubSeq(s, 12, Len(s))).value)]
    ELSE [ok |-> FALSE, exc |-> "ValueError"]

\* the value a string decodes to: a full match of one of the three
\* patterns that also parses, and the string itself otherwise
DeserializeString(v) ==
    IF DateTimeShape(v.s)
    THEN (IF ParseDateTime(v.s).ok THEN ParseDateTime(v.s).value ELSE v)
    ELSE IF DateShape(v.s)
    THEN (IF ParseDate(v.s).ok THEN ParseDate(v.s).value ELSE v)
    ELSE IF TimeShape(v.s)
    THEN (IF ParseTime(v.s).ok THEN ParseTime(v.s).value ELSE v)
    ELSE v

\* _deserialize_value(value): floats become decimals, strings that match
\* become dates and times, lists are gone through, the rest is returned
RECURSIVE deserialize_value(_)
deserialize_value(value) ==
    CASE value.t = "float" /\ value.kind = "finite" -> DecimalOfFloat(value)
      [] value.t = "str"   -> DeserializeString(value)
      [] value.t = "list"  ->
             PyList([i \in 1..Len(value.items) |-> deserialize_value(value.items[i])])
      [] OTHER             -> value

\* a == b for two values: decimals compare by the number they name
PyEquals(a, b) ==
    IF a.t = "decimal" /\ b.t = "decimal"
    THEN a.coef * Pow10(a.exp - (IF a.exp < b.exp THEN a.exp ELSE b.exp))
         = b.coef * Pow10(b.exp - (IF a.exp < b.exp THEN a.exp ELSE b.exp))
    ELSE a = b

(***************************************************************************)
(* Scalar codec inputs and state machine: a caller holds a value, encodes  *)
(* it, and decodes what it holds.                                          *)
(***************************************************************************)
DateInputs ==
    {PyDate(2025, 6, 15), PyDate(2024, 2, 29), PyDate(1, 1, 1),
     PyDate(9999, 12, 31), PyDate(2025, 1, 5)}

TimeInputs ==
    {PyTime(12, 30, 45, 0, PyNone), PyTime(0, 0, 0, 0, PyNone),
     PyTime(23, 59, 59, 0, PyNone), PyTime(1, 2, 3, 0, PyNone),
     PyTime(12, 30, 45, 123456, PyNone), PyTime(12, 30, 45, 1, PyNone),
     PyTime(12, 30, 45, 0, PyTz(0)), PyTime(12, 30, 45, 0, PyTz(330)),
     PyTime(12, 30, 45, 500000, PyTz(0 - 300))}

DateTimeInputs == {PyDateTime(d, x) : d \in DateInputs, x \in TimeInputs}

DecimalInputs ==
    {PyDecimal(1999, 0 - 2), PyDecimal(42, 0), PyDecimal(550, 0 - 2),
     PyDecimal(0, 0), PyDecimal(0, 0 - 1), PyDecimal(0 - 314, 0 - 2),
     PyDecimal(1, 2), PyDecimal(1, 0 - 3), PyDecimal(100, 0)}

\* the values the codec has a wire form for
SupportedInputs == DateInputs \cup TimeInputs \cup DateTimeInputs \cup DecimalInputs

\* values it has none for
UnsupportedInputs == {[t |-> "NA"], [t |-> "bytes"], [t |-> "set"]}

\* values as a decoded reply holds them
WireInputs ==
    {PyFloatOf(314, 0 - 2), PyFloatOf(0, 0), PyFloatOf(42, 0),
     PyInt(5), PyBool(TRUE), PyNone,
     PyStr(<<"2", "0", "2", "5", "-", "0", "6", "-", "1", "5">>), PyStr(<<"2", "0", "2", "5", "-", "0", "6">>),
     PyStr(<<"2", "0", "2", "5", "-", "0", "2", "-", "3", "0">>), PyStr(<<"2", "0", "2", "5", "-", "1", "3", "-", "0", "1">>),
     PyStr(<<"a", "b", "c", "2", "0", "2", "5", "-", "0", "6", "-", "1", "5">>), PyStr(<<"2", "0", "2", "5", "-", "0", "6", "-", "1", "5", "a", "b", "c">>),
     PyStr(<<"1", "2", ":", "3", "0", ":", "4", "5">>), PyStr(<<"2", "5", ":", "0", "0", ":", "0", "0">>),
     PyStr(<<"1", "2", ":", "3", "0", ":", "4", "5", ".", "5", "Z">>), PyStr(<<"1", "2", ":", "3", "0">>),
     PyStr(<<"2", "0", "2", "5", "-", "0", "6", "-", "1", "5", " ", "1", "2", ":", "3", "0", ":", "4", "5">>), PyStr(<<"2", "0", "2", "5", "-", "0", "6", "-", "1", "5", "T", "1", "2", ":", "3", "0", ":", "4", "5", "Z">>),
     PyStr(<<"2", "0", "2", "5", "-", "0", "6", "-", "1", "5", "T", "1", "2", ":", "3", "0", ":", "4", "5", ".", "1", "2", "3", "4", "5", "6", "+", "0", "5", ":", "3", "0">>),
     PyStr(<<"2", "0", "2", "5", "-", "0", "2", "-", "3", "0", "T", "1", "2", ":", "3", "0", ":", "4", "5">>), PyStr(<<"h", "e", "l", "l", "o", " ", "w", "o", "r", "l", "d">>),
     PyList(<<PyFloatOf(15, 0 - 1), PyStr(<<"2", "0", "2", "5", "-", "0", "6", "-", "1", "5">>), PyInt(1)>>)}

CodecInputs == SupportedInputs \cup UnsupportedInputs \cup WireInputs

InitCodec ==
    /\ buf \in CodecInputs
    /\ src = [kind |-> "value"]
    /\ dec = NoCall
    /\ client = NoCall
    /\ UrlIdle
    /\ DispatcherIdle

\* value = _serialize_default(value)
SerializeDefault ==
    /\ src.kind = "value"
    /\ dec = NoCall
    /\ IF serialize_default(buf).ok
       THEN /\ buf' = serialize_default(buf).value
            /\ src' = [kind |-> "serialized", of |-> buf]
            /\ dec' = dec
       ELSE /\ dec' = [op |-> "_serialize_default", res |-> serialize_default(buf)]
            /\ UNCHANGED <<buf, src>>
    /\ UNCHANGED <<client, urlVars, dispVars>>

\* _deserialize_value(value)
DeserializeValue ==
    /\ dec = NoCall
    /\ dec' = [op |-> "_deserialize_value", value |-> deserialize_value(buf)]
    /\ UNCHANGED <<buf, src, client, urlVars, dispVars>>

NextCodec == SerializeDefault \/ DeserializeValue

SpecCodec == InitCodec /\ [][NextCodec]_vars

(***************************************************************************)
(* collections.py : DictObject and OrderedDictObject                       *)
(*                                                                         *)
(* An object is its class, its key store, and its instance dictionary:     *)
(* both classes make the instance dictionary the object itself (wired),    *)
(* and attrs is the instance dictionary of an object that no longer is.    *)
(***************************************************************************)
\* names a caller can use: two ordinary ones, a method of dict, and the
\* attribute that holds the instance dictionary
Names == {"a", "b", "keys", "__dict__"}

\* the names among them that the class itself defines
ClassAttributes == {"keys", "__dict__"}

\* those of them that are data descriptors: they win over the instance
\* dictionary
DataDescriptors == {"__dict__"}

Object(cls, items, wired, attrs) ==
    [cls |-> cls, store |-> items, wired |-> wired, attrs |-> attrs]

\* DictObject.__init__ (lines 120-128) and OrderedDictObject.__new__ (lines
\* 61-79): the store is filled and becomes the instance dictionary
NewObject(cls, pairs) == Object(cls, pairs, TRUE, EmptyMap)

Done(o) == [ok |-> TRUE, o |-> o]

Fails(o, exc) == [ok |-> FALSE, o |-> o, exc |-> exc]

\* obj.__dict__ as attribute lookup sees it
InstanceDict(o) == IF o.wired THEN o.store ELSE o.attrs

\* obj[k] = v
setitem(o, k, v) == Done([o EXCEPT !.store = MapSet(o.store, k, v)])

\* del obj[k]
delitem(o, k) ==
    IF k \in DOMAIN o.store
    THEN Done([o EXCEPT !.store = MapPop(o.store, k)])
    ELSE Fails(o, "KeyError")

\* object.__setattr__, which DictObject inherits: __dict__ is replaced by
\* the dictionary given, any other name is stored in the instance dictionary
object_setattr(o, k, v) ==
    IF k \in DataDescriptors
    THEN IF v.t = "dict"
         THEN Done([o EXCEPT !.wired = FALSE, !.attrs = v.d])
         ELSE Fails(o, "TypeError")
    ELSE IF o.wired
    THEN Done([o EXCEPT !.store = MapSet(o.store, k, v)])
    ELSE Done([o EXCEPT !.attrs = MapSet(o.attrs, k, v)])

\* object.__delattr__, which DictObject inherits
object_delattr(o, k) ==
    IF k \in DataDescriptors
    THEN Done([o EXCEPT !.wired = FALSE, !.attrs = EmptyMap])
    ELSE IF k \notin DOMAIN InstanceDict(o)
    THEN Fails(o, "AttributeError")
    ELSE IF o.wired
    THEN Done([o EXCEPT !.store = MapPop(o.store, k)])
    ELSE Done([o EXCEPT !.attrs = MapPop(o.attrs, k)])

\* obj.k = v.  OrderedDictObject.__setattr__, lines 81-88
setattr_(o, k, v) ==
    IF o.cls = "OrderedDictObject" THEN setitem(o, k, v) ELSE object_setattr(o, k, v)

\* mutant: deleting a missing attribute is ignored
delattr__ignores_missing(o, k) ==
    IF o.cls = "OrderedDictObject"
    THEN (IF k \in DOMAIN o.store THEN delitem(o, k) ELSE Done(o))
    ELSE object_delattr(o, k)

\* del obj.k.  OrderedDictObject.__delattr__, lines 90-100
delattr_(o, k) ==
    IF o.cls = "OrderedDictObject" THEN delitem(o, k) ELSE object_delattr(o, k)

\* hasattr(obj, k)
hasattr(o, k) == k \in ClassAttributes \/ k \in DOMAIN InstanceDict(o)

\* obj.k where it exists: a data descriptor of the class, then the
\* instance dictionary, then the other attributes of the class
getattr(o, k) ==
    IF k \in DataDescriptors
    THEN (IF o.wired THEN [t |-> "self"] ELSE PyDict(o.attrs))
    ELSE IF k \in DOMAIN InstanceDict(o) THEN InstanceDict(o)[k]
    ELSE [t |-> "method", name |-> k]

(***************************************************************************)
(* Collections state machine: a caller builds an object and sets and       *)
(* deletes names through the key interface and the attribute interface.    *)
(***************************************************************************)
ObjectClasses == {"DictObject", "OrderedDictObject"}

ObjectValues == {PyInt(1), PyDict(EmptyMap)}

InitialPairs == {EmptyMap, [k \in {"a"} |-> PyInt(1)]}

\* the object, held in buf (the store) and src (the rest)
TheObject == Object(src.cls, buf, src.wired, src.attrs)

InitCollections ==
    /\ \E cls \in ObjectClasses, pairs \in InitialPairs :
           /\ buf = NewObject(cls, pairs).store
           /\ src = [kind |-> "object", cls |-> cls, wired |-> TRUE, attrs |-> EmptyMap]
    /\ dec = NoCall
    /\ client = NoCall
    /\ UrlIdle
    /\ DispatcherIdle

\* the operation op on name k had result r
Operate(op, k, r) ==
    /\ buf' = r.o.store
    /\ src' = [src EXCEPT !.wired = r.o.wired, !.attrs = r.o.attrs]
    /\ dec' = [op |-> op, name |-> k, ok |-> r.ok,
               exc |-> IF r.ok THEN "none" ELSE r.exc,
               missing |-> k \notin DOMAIN buf,
               changed |-> r.o # TheObject]
    /\ UNCHANGED <<client, urlVars, dispVars>>

SetItem ==
    /\ src.kind = "object"
    /\ \E k \in Names, v \in ObjectValues : Operate("setitem", k, setitem(TheObject, k, v))

DelItem ==
    /\ src.kind = "object"
    /\ \E k \in Names : Operate("delitem", k, delitem(TheObject, k))

SetAttr ==
    /\ src.kind = "object"
    /\ \E k \in Names, v \in ObjectValues : Operate("setattr", k, setattr_(TheObject, k, v))

DelAttr ==
    /\ src.kind = "object"
    /\ \E k \in Names : Operate("delattr", k, delattr_(TheObject, k))

NextCollections == SetItem \/ DelItem \/ SetAttr \/ DelAttr

SpecCollections == InitCollections /\ [][NextCollections]_vars

(***************************************************************************)
(* Method calls                                                            *)
(***************************************************************************)
S_50 == <<"5", "0">>

S_bogus == <<"b", "o", "g", "u", "s">>

OffsetInputs ==
    {PyNone, PyInt(0), PyInt(50), PyInt(0 - 1), PyInt(OFFSET_LIMIT),
     PyInt(OFFSET_LIMIT + 1), PyInt(2 * OFFSET_LIMIT + 1), PyBool(TRUE),
     PyStr(S_50), PyStr(<<" ", "7", " ">>), PyStr(<<"+", "5">>), PyStr(<<"-", "3">>),
     PyStr(IntToStr(OFFSET_LIMIT)), PyStr(IntToStr(OFFSET_LIMIT + 1)),
     PyStr(S_bogus), PyStr(<<>>), PyStr(<<"1", ".", "5">>), PyStr(<<"-">>),
     PyFloat("finite", 2), PyFloat("inf", 0), PyFloat("nan", 0),
     PyList(<<PyInt(5)>>), PyDict(EmptyMap)}

\* a call of the method fn with every optional argument left out
Arguments(fn) ==
    [fn |-> fn, id |-> PyStr(S_x), body |-> PyDict(Kw("n", PyInt(1))),
     query |-> PyNone, partial |-> PyNone, terms |-> PyNone, offset |-> PyNone,
     check_at_least |-> PyNone, limit |-> PyNone, sort |-> PyNone,
     language |-> PyNone, accept |-> PyNone, default |-> NA,
     content_type |-> PyNone, commit |-> PyNone,
     pretty |-> PyBool(FALSE), volatile |-> PyBool(FALSE),
     kwargs |-> PyNone, kw |-> EmptyMap]

SearchCalls ==
    {[Arguments("search") EXCEPT !.offset = o, !.query = q,
         !.limit = IF q = PyNone THEN PyNone ELSE PyInt(10), !.kw = kw] :
        o \in OffsetInputs, q \in {PyNone, PyStr(S_x)},
        kw \in {EmptyMap, Kw("body", PyDict(Kw("n", PyInt(1))))}}
    \cup {[Arguments("search") EXCEPT !.kw = Kw("follow_redirects", PyBool(TRUE))]}
    \cup {[Arguments("search") EXCEPT !.offset = o, !.pretty = PyBool(TRUE),
              !.kwargs = PyDict(Kw("params", PyDictOf(<<<<N_offset, PyInt(7)>>>>)))] :
            o \in OffsetInputs}

WriteMethods == {"post", "put", "patch", "merge", "store", "delete"}

CommitInputs == {PyNone, PyBool(TRUE), PyBool(FALSE)}

WriteCalls ==
    {[Arguments(fn) EXCEPT !.commit = c, !.pretty = p, !.kwargs = k] :
        fn \in WriteMethods \cup {"index"}, c \in CommitInputs,
        p \in {PyBool(FALSE), PyBool(TRUE)},
        k \in {PyNone, PyDict(EmptyMap),
               PyDict(Kw("params", PyDictOf(<<<<N_commit, PyBool(TRUE)>>>>)))}}
    \cup {[Arguments("store") EXCEPT !.body = PyStr(S_x), !.commit = c] : c \in CommitInputs}

UpdateCalls ==
    {[Arguments(fn) EXCEPT !.content_type = ct, !.commit = c, !.kwargs = k] :
        fn \in {"update", "merge"}, ct \in {PyNone, PyStr(S_json)}, c \in CommitInputs,
        k \in {PyNone, PyDict(Kw("headers", PyDict(Kw("accept", PyStr(S_text)))))}}

ReadCalls ==
    {[Arguments("get") EXCEPT !.accept = ac, !.default = d, !.volatile = v, !.kwargs = k] :
        ac \in {PyNone, PyStr(S_json)}, d \in {NA, PyNone},
        v \in {PyBool(FALSE), PyBool(TRUE)},
        k \in {PyNone, PyDict(Kw("headers", PyDict(Kw("content-type", PyStr(S_text)))))}}
    \cup {[Arguments(fn) EXCEPT !.pretty = p] :
            fn \in {"head", "stats"}, p \in {PyBool(FALSE), PyBool(TRUE)}}
    \cup {[Arguments("count") EXCEPT !.body = b, !.query = q, !.kw = kw, !.commit = c] :
            b \in {PyNone, PyDict(Kw("n", PyInt(1)))}, q \in {PyNone, PyStr(S_x)},
            kw \in {EmptyMap, Kw("limit", PyInt(10)), Kw("commit", PyBool(TRUE))},
            c \in {PyNone, PyBool(TRUE)}}

MethodCalls == SearchCalls \cup WriteCalls \cup UpdateCalls \cup ReadCalls

\* what os.path.isfile can answer for the body of the call
IsFileAnswers(a) == IF a.body.t = "str" THEN BOOLEAN ELSE {FALSE}

\* the method call a, of which r is the _send_request call it makes or the
\* exception it raises, runs up to the transport call or to an exception
InvokeMethod(a, r, isfile) ==
    IF r.ok
    THEN Invoke(SendRequestVia(a, r.action_request, r.kwargs, isfile))
    ELSE /\ call' = [op |-> "method", via |-> a]
         /\ outcome' = Raise(r.exc, FALSE)
         /\ pc' = "done"
         /\ UNCHANGED <<request, sent>>

\* a method of the client is called
CallMethod ==
    /\ pc = "idle"
    /\ \E a \in MethodCalls :
         \E isfile \in IsFileAnswers(a) :
           InvokeMethod(a, CallOf(client, a), isfile)
    /\ UNCHANGED <<client, response, encVars, urlVars>>

Next ==
    \/ SendRequest
    \/ CallMethod
    \/ Respond
    \/ TransportFails

Spec == Init /\ [][Next]_vars

(***************************************************************************)
(* Request construction: _send_request up to the transport call, on calls  *)
(* that vary the parameters, the headers, the body and the body keywords.  *)
(***************************************************************************)
S_pre == <<"p", "r", "e">>

S_foo == <<"/", "f", "o", "o">>

S_foo_slash == <<"/", "f", "o", "o", "/">>

RequestClients ==
    Clients \cup
    {Xapiand(PyStr(S_localhost), PyInt(8880), PyBool(TRUE), PyStr(S_pre), PyStr(S_json)),
     Xapiand(PyStr(S_localhost), PyInt(8880), PyBool(FALSE), PyNone, PyStr(S_text))}

N_q == <<"q">>

N_a__b == <<"a", "_", "_", "b">>

N_a_b == <<"a", ".", "b">>

N_a___b == <<"a", "_", "_", "_", "b">>

N_x____y == <<"x", "_", "_", "_", "_", "y">>

ParamNames ==
    {N_commit, N_volatile, N_pretty, N_indent, N_q, N_a__b, N_a_b, N_a___b, N_x____y}

ParamValues ==
    {PyBool(TRUE), PyBool(FALSE), PyInt(0), PyInt(2), PyNone, PyStr(<<>>), PyStr(S_x)}

\* the params dicts passed: empty, one name, two names that collide after
\* the replacement, a flag next to other names
ParamsInputs ==
    {PyDictOf(<<>>)}
    \cup {PyDictOf(<<<<k, v>>>>) : k \in ParamNames, v \in ParamValues}
    \cup {PyDictOf(<<<<N_a__b, v>>, <<N_a_b, w>>>>) :
            v \in {PyInt(2), PyBool(TRUE)}, w \in {PyInt(2), PyStr(S_x)}}
    \cup {PyDictOf(<<<<N_a_b, v>>, <<N_a__b, w>>>>) :
            v \in {PyInt(2), PyBool(TRUE)}, w \in {PyInt(2), PyStr(S_x)}}
    \cup {PyDictOf(<<<<N_commit, v>>, <<N_pretty, PyBool(TRUE)>>, <<N_a__b, PyStr(S_x)>>>>) :
            v \in {PyBool(FALSE), PyBool(TRUE)}}

\* headers passed by the caller: none, or a dict with accept and / or
\* content-type
HeadersInputs ==
    {EmptyMap, Kw("headers", PyDict(EmptyMap))}
    \cup {Kw("headers", PyDict(Kw("accept", PyStr(s)))) : s \in {S_json, S_msgpack, S_text}}
    \cup {Kw("headers", PyDict(Kw("content-type", PyStr(s)))) :
            s \in {S_json, S_msgpack, S_text}}
    \cup {Kw("headers", PyDict(Kw("accept", PyStr(S_json))
                               @@ Kw("content-type", PyStr(S_msgpack)))),
          Kw("headers", PyDict(Kw("accept", PyStr(S_text))
                               @@ Kw("content-type", PyStr(S_json))))}

PlainDict == PyDict(Kw("n", PyInt(1)))

\* bodies with a '_schema' reference: a string, a nested mapping with
\* '_foreign', and shapes the rewrite cannot handle
SchemaBodies ==
    {PyDict(Kw("_schema", PyStr(S_foo))),
     PyDict(Kw("_schema", PyStr(S_foo_slash)) @@ Kw("n", PyInt(1))),
     PyDict(Kw("_schema", PyDict(Kw("_foreign", PyStr(S_foo_slash))
                                 @@ Kw("type", PyStr(S_x))))
            @@ Kw("n", PyInt(1))),
     PyDict(Kw("_schema", PyDict(Kw("type", PyStr(S_x))))),
     PyDict(Kw("_schema", PyInt(3)))}

\* the body argument
BodyArgs ==
    {PyNone, PlainDict, PyList(<<PyInt(1)>>), PyStr(S_x)} \cup SchemaBodies

\* the json / msgpack keywords of a call
BodyKeywords ==
    {EmptyMap,
     Kw("json", PlainDict),
     Kw("json", PyList(<<PyInt(2)>>)),
     Kw("json", PyStr(S_x)),
     Kw("json", PyNone),
     Kw("json", PyDict(Kw("_schema", PyStr(S_foo)))),
     Kw("msgpack", PlainDict),
     Kw("msgpack", PyStr(S_x)),
     Kw("json", PlainDict) @@ Kw("msgpack", PyList(<<PyInt(2)>>))}

\* the data keyword of a call
DataKeywords ==
    {Kw("data", v) :
        v \in {PlainDict, PyDict(EmptyMap), PyList(<<PyInt(1)>>), PyInt(0), PyStr(S_x)}}

\* keywords of a call that _send_request does not know and hands on to
\* the transport
TransportKeywords ==
    {Kw("follow_redirects", PyBool(TRUE)), Kw("follow_redirects", PyBool(FALSE)),
     Kw("timeout", PyInt(5)),
     Kw("timeout", PyInt(5)) @@ Kw("follow_redirects", PyBool(TRUE))}

\* bodies that hold decimals, dates and times, at the top and deeper, one
\* that holds a value with no wire form, and one of plain values
ScalarBodies ==
    {PyDict([k \in {"price"} |-> PyDecimal(1999, 0 - 2)]),
     PyDict([k \in {"created", "n"} |->
                IF k = "n" THEN PyInt(1)
                ELSE PyDateTime(PyDate(2025, 6, 15), PyTime(12, 30, 45, 0, PyNone))]),
     PyDict([k \in {"items"} |->
                PyList(<<PyDict([j \in {"day", "at"} |->
                            IF j = "day" THEN PyDate(2025, 6, 15)
                            ELSE PyTime(12, 30, 45, 0, PyNone)])>>)]),
     PyList(<<PyDecimal(42, 0), PyInt(1)>>),
     PyDict([k \in {"obj"} |-> [t |-> "NA"]]),
     PyDict([k \in {"n", "x"} |-> IF k = "n" THEN PyInt(1) ELSE PyFloatOf(15, 0 - 1)])}

\* (action, body, kwargs) of the calls
RequestInputs ==
    {[action_request |-> "get", body |-> PyNone, kwargs |-> Kw("params", ps)] :
        ps \in ParamsInputs \cup {PyNone}}
    \cup {[action_request |-> "post", body |-> b, kwargs |-> h @@ k] :
            b \in BodyArgs, h \in HeadersInputs, k \in BodyKeywords}
    \cup {[action_request |-> a, body |-> b, kwargs |-> k] :
            a \in Actions, b \in {PyNone, PlainDict},
            k \in {EmptyMap, Kw("json", PlainDict), Kw("msgpack", PlainDict)}}
    \cup {[action_request |-> "post", body |-> b, kwargs |-> h @@ k] :
            b \in {PyNone, PlainDict}, h \in HeadersInputs, k \in DataKeywords}
    \cup {[action_request |-> a, body |-> PyNone, kwargs |-> k] :
            a \in {"get", "search"}, k \in TransportKeywords}
    \cup {[action_request |-> "post", body |-> b, kwargs |-> EmptyMap] :
            b \in ScalarBodies}
    \cup {[action_request |-> "post", body |-> PyNone, kwargs |-> Kw("data", b)] :
            b \in ScalarBodies}

InitRequest ==
    /\ client \in RequestClients
    /\ DispatcherIdle
    /\ EncoderIdle
    /\ UrlIdle

\* _send_request is called, and runs up to the transport call
Dispatch ==
    /\ pc = "idle"
    /\ \E r \in RequestInputs :
         \E isfile \in BOOLEAN :
           Invoke(SendRequestCall(r.action_request, PyNone, r.body, NA, r.kwargs, isfile))
    /\ UNCHANGED <<client, response, encVars, urlVars>>

\* Line 349: body.copy() copies the mapping but not the '_schema' mapping
\* in it, so lines 351-352 write the prefixed '_foreign' into the mapping
\* the caller holds.  The caller's body after the call.
BodyAfter(self, body) ==
    IF /\ body.t = "dict" /\ "_schema" \in DOMAIN body.d
       /\ body.d["_schema"].t = "dict"
       /\ RewriteSchema(self, body).ok
    THEN RewriteSchema(self, body).body
    ELSE body

\* Lines 327-344 write the defaults and the content type into the headers
\* mapping the caller passed; lines 331-337 take the body from the json or
\* msgpack keyword.  The caller's arguments after the call c, of which n is
\* what Negotiate gives.
ArgumentsAfterNegotiation(self, c, n) ==
    [c EXCEPT
        !.body = IF "json" \in DOMAIN c.kwargs \/ "msgpack" \in DOMAIN c.kwargs
                 THEN c.body ELSE BodyAfter(self, c.body),
        !.kwargs = [k \in DOMAIN c.kwargs |->
                        IF k = "headers" THEN [c.kwargs[k] EXCEPT !.d = n.headers]
                        ELSE IF k = "json" \/ (k = "msgpack" /\ "json" \notin DOMAIN c.kwargs)
                        THEN BodyAfter(self, c.kwargs[k])
                        ELSE c.kwargs[k]]]

ArgumentsAfter(self, c) ==
    ArgumentsAfterNegotiation(self, c,
        Negotiate(KwargsWithParams(c.kwargs),
                  DefaultHeaders(self, KwargsWithParams(c.kwargs)),
                  c.body))

\* the caller issues the same _send_request call again, with the argument
\* objects as the first call left them
Repeat ==
    /\ pc # "idle"
    /\ call.op = "_send_request"
    /\ "via" \notin DOMAIN call
    /\ "first" \notin DOMAIN call
    /\ Invoke(ArgumentsAfter(client, call)
              @@ [first |-> [call |-> call, pc |-> pc, request |-> request]])
    /\ UNCHANGED <<client, response, encVars, urlVars>>

NextRequest ==
    \/ Dispatch
    \/ CallMethod
    \/ Repeat

SpecRequest == InitRequest /\ [][NextRequest]_vars

(***************************************************************************)
(* The legacy synchronous client (src/__init__.py): _send_request up to    *)
(* the call of the requests session.  _build_url, the params rewrite, the  *)
(* headers, the negotiation, the '_schema' rewrite and the serialization   *)
(* are line for line those of the async client; the call of the transport  *)
(* and the treatment of data are not.                                      *)
(***************************************************************************)
\* the verbs whose Session method takes the body as a second positional
\* argument (post, put, patch, and merge and store of lines 81-86); get,
\* delete and head take the url only
VerbsWithData == {"POST", "PUT", "PATCH", "MERGE", "STORE"}

\* Lines 217-240: a request with a body, method(url, body, **kwargs)
LegacyRequestWithBody(self, method, url, n, kwargs, isfile) ==
    IF /\ n.body.t = "dict" /\ "_schema" \in DOMAIN n.body.d
       /\ ~RewriteSchema(self, n.body).ok
    THEN [ok |-> FALSE, exc |-> RewriteSchema(self, n.body).exc]
    ELSE IF DumpsRaises(IF n.body.t = "dict" /\ "_schema" \in DOMAIN n.body.d
                        THEN RewriteSchema(self, n.body).body ELSE n.body,
                        n.is_msgpack, n.is_json)
    THEN [ok |-> FALSE, exc |-> "TypeError"]
    ELSE IF method \notin VerbsWithData \/ "data" \in DOMAIN kwargs
    THEN \* too many positional arguments, or two values for data
         [ok |-> FALSE, exc |-> "TypeError"]
    ELSE [ok |-> TRUE,
          request |-> [method |-> method, url |-> url,
                       kwargs |-> MapSet(kwargs, "data",
                           SerializeBody(IF n.body.t = "dict" /\ "_schema" \in DOMAIN n.body.d
                                         THEN RewriteSchema(self, n.body).body ELSE n.body,
                                         n.is_msgpack, n.is_json, isfile))]]

\* Lines 241-249: a request without a body.  data is kwargs.get('data'):
\* it is replaced by its encoding, or stays in kwargs as it is
LegacyRequestWithoutBody(method, url, n, kwargs, data) ==
    IF Truthy(data) /\ (n.is_msgpack \/ n.is_json) /\ ~Serializable(data)
    THEN [ok |-> FALSE, exc |-> "TypeError"]
    ELSE
    [ok |-> TRUE,
     request |-> [method |-> method, url |-> url,
                  kwargs |-> IF Truthy(data) /\ n.is_msgpack
                             THEN MapSet(kwargs, "data", Dumps("msgpack", data))
                             ELSE IF Truthy(data) /\ n.is_json
                             THEN MapSet(kwargs, "data", Dumps("json", data))
                             ELSE kwargs]]

\* Lines 217-249.  n is what Negotiate gives.
LegacyBuildRequest(self, method, url, n, isfile) ==
    IF n.body # PyNone
    THEN LegacyRequestWithBody(self, method, url, n,
                               MapSet(n.kwargs, "headers", PyDict(n.headers)), isfile)
    ELSE LegacyRequestWithoutBody(method, url, n,
                                  MapSet(n.kwargs, "headers", PyDict(n.headers)),
                                  IF "data" \in DOMAIN n.kwargs
                                  THEN n.kwargs["data"] ELSE PyNone)

\* Lines 186-249 of the legacy _send_request, up to the call of the
\* session.  Line 197 adds allow_redirects=False to the keywords.
LegacyPrepareRequest(self, c, order, isfile) ==
    LegacyBuildRequest(self,
        HttpMethod(c.action_request, c.body),
        build_url(self, c.action_request, c.index, c.host, c.port,
                  c.nodename, c.id, order),
        Negotiate(SetDefault(KwargsWithParams(c.kwargs), "allow_redirects", PyBool(FALSE)),
                  DefaultHeaders(self, KwargsWithParams(c.kwargs)),
                  c.body),
        isfile)

(***************************************************************************)
(* The two clients side by side: the async client takes a call up to the   *)
(* transport, and the legacy client is given the same call on the same     *)
(* configuration.                                                          *)
(***************************************************************************)
LegacyDispatch ==
    /\ pc # "idle"
    /\ call.op = "_send_request"
    /\ dec = NoCall
    /\ dec' = [op |-> "legacy _send_request",
               res |-> LegacyPrepareRequest(client, call, IndexOrder(call.index),
                                            call.isfile)]
    /\ UNCHANGED <<buf, src, client, urlVars, dispVars>>

NextLegacy == Dispatch \/ LegacyDispatch

SpecLegacy == InitRequest /\ [][NextLegacy]_vars

(***************************************************************************)
(* Concurrent calls: several tasks call _send_request on one client and    *)
(* are suspended at the transport together.  Here pc, call, request,       *)
(* response and outcome hold one entry for each task, and sent lists the   *)
(* tasks in the order in which their requests were handed to the session.  *)
(* A coroutine runs from its call to the await of session.request, and     *)
(* from the answer to its end, without yielding to another task.           *)
(***************************************************************************)
MaxTasks == 2

Tasks == 1..MaxTasks

\* the calls the tasks make, each with arguments of its own
ConcurrentCalls ==
    {SendRequestCall("get", PyStr(S_x), PyNone, NA, EmptyMap, FALSE),
     SendRequestCall("get", PyStr(S_x), PyNone, PyNone, EmptyMap, FALSE),
     SendRequestCall("search", PyNone, PyNone, NA, Kw("json", PyDict(Kw("n", PyInt(1)))), FALSE),
     SendRequestCall("post", PyNone, PyDict(Kw("_schema", PyStr(S_schema))), NA,
                     EmptyMap, FALSE),
     SendRequestCall("post", PyNone, PyDict(Kw("_schema", PyInt(3))), NA, EmptyMap, FALSE),
     SendRequestCall("delete", PyStr(S_x), PyNone, PyInt(0),
                     Kw("params", PyDictOf(<<<<N_commit, PyBool(TRUE)>>>>)), FALSE)}

ConcurrentResponses ==
    {Response(200, ContentType(S_json),
              Body("json", WObj(<<WPair(RESPONSE_QUERY, WObj(FullQuery))>>))),
     Response(200, ContentType(S_json), Body("json", SimpleDoc)),
     Response(404, EmptyMap, Body("raw", WNull))}

InitConcurrent ==
    /\ client \in Clients
    /\ pc = [t \in Tasks |-> "idle"]
    /\ call = [t \in Tasks |-> NoCall]
    /\ request = [t \in Tasks |-> NoCall]
    /\ response = [t \in Tasks |-> NoCall]
    /\ outcome = [t \in Tasks |-> NoCall]
    /\ sent = <<>>
    /\ EncoderIdle
    /\ UrlIdle

\* lines 313-369/378 in task t: the call c, of which prep is the request
\* constructed or the exception raised, runs up to the transport call.
\* Nothing is assigned to self.
Begin(t, c, prep) ==
    /\ call' = [call EXCEPT ![t] = c]
    /\ IF prep.ok
       THEN /\ request' = [request EXCEPT ![t] = [op |-> "request"] @@ prep.request]
            /\ sent' = Append(sent, t)
            /\ pc' = [pc EXCEPT ![t] = "awaiting"]
            /\ outcome' = outcome
       ELSE /\ outcome' = [outcome EXCEPT ![t] = Raise(prep.exc, FALSE)]
            /\ pc' = [pc EXCEPT ![t] = "done"]
            /\ UNCHANGED <<request, sent>>
    /\ UNCHANGED <<client, response, encVars, urlVars>>

\* a task calls _send_request
TaskCalls ==
    \E t \in Tasks :
        /\ pc[t] = "idle"
        /\ \E c \in ConcurrentCalls :
             Begin(t, c, PrepareRequest(client, c, IndexOrder(c.index), c.isfile))

\* mutant: the call whose arguments decide the result is the one that
\* issued the latest request, as if they were kept on the client
Complete_latest_call(t, res) ==
    /\ response' = [response EXCEPT ![t] = res]
    /\ outcome' = [outcome EXCEPT ![t] = ProcessResponse(call[sent[Len(sent)]], res)]
    /\ pc' = [pc EXCEPT ![t] = "done"]
    /\ UNCHANGED <<client, call, request, sent, encVars, urlVars>>

\* lines 380-417 in task t: res, action_request and default are locals of
\* the coroutine
Complete(t, res) ==
    /\ response' = [response EXCEPT ![t] = res]
    /\ outcome' = [outcome EXCEPT ![t] = ProcessResponse(call[t], res)]
    /\ pc' = [pc EXCEPT ![t] = "done"]
    /\ UNCHANGED <<client, call, request, sent, encVars, urlVars>>

\* the transport answers the request of a suspended task, in any order
TaskCompletes ==
    \E t \in Tasks :
        /\ pc[t] = "awaiting"
        /\ \E res \in ConcurrentResponses : Complete(t, res)

\* session.request raises in a suspended task
TaskFails ==
    \E t \in Tasks :
        /\ pc[t] = "awaiting"
        /\ outcome' = [outcome EXCEPT ![t] = Raise("TransportError", FALSE)]
        /\ pc' = [pc EXCEPT ![t] = "done"]
        /\ UNCHANGED <<client, call, request, sent, response, encVars, urlVars>>

NextConcurrent ==
    \/ TaskCalls
    \/ TaskCompletes
    \/ TaskFails

SpecConcurrent == InitConcurrent /\ [][NextConcurrent]_vars

(***************************************************************************)
(* Properties of the encoder                                               *)
(***************************************************************************)
IsValueError(r) == ~r.ok /\ r.err = "ValueError"

\* The number held by the 7-bit groups e[from..Len(e)], least significant first
RECURSIVE GroupsValue(_, _)
GroupsValue(e, from) ==
    IF from > Len(e)
    THEN 0
    ELSE Low7(e[from]) + 128 * GroupsValue(e, from + 1)

\* C4: length round trip.  Decoding serialise_length(n) followed by any
\* tail gives back exactly (n, tail); with an empty tail, (n, "").
C4_LengthRoundTrip ==
    (src.kind = "length" /\ dec.op = "length" /\ ~dec.check)
        => dec.res = [ok |-> TRUE, length |-> src.n, data |-> src.tail]

\* C4 witness: the boundary 255 + 128, with a non-empty tail, was encoded
\* and decoded
C4_Witness ==
    /\ src.kind = "length"
    /\ src.n = 255 + 128
    /\ src.tail = <<255, 128>>
    /\ dec.op = "length"
    /\ ~dec.check
    /\ dec.res.ok

\* C5: string round trip.  Decoding serialise_string(s) followed by any
\* tail gives back exactly (s, tail), also for the empty string and for
\* strings of 255 characters or more.
C5_StringRoundTrip ==
    (src.kind = "string" /\ dec.op = "string")
        => dec.res = [ok |-> TRUE, s |-> src.s, data |-> src.tail]

\* C5 witness: a string of at least 255 characters 0xFF with a tail that
\* itself looks like an encoded length was encoded and decoded
C5_Witness ==
    /\ src.kind = "string"
    /\ Len(src.s) >= 255
    /\ src.s[1] = 255
    /\ src.tail = <<255, 128>>
    /\ dec.op = "string"
    /\ dec.res.ok

\* C6: output format of serialise_length.  Below 255 the output is the one
\* character n.  From 255 on it is 0xFF followed by one or more characters
\* that hold n - 255 in 7-bit groups, least significant first; every one
\* but the last has the high bit clear, the last has it set, and no group
\* follows once the value is consumed (the last group of several is not 0).
C6_LengthFormat ==
    src.kind = "length" =>
        LET e == src.encoded
            n == src.n
        IN  IF n < 255
            THEN e = <<n>>
            ELSE /\ Len(e) >= 2
                 /\ e[1] = 255
                 /\ \A i \in 2..(Len(e) - 1) : e[i] \in 0..127
                 /\ e[Len(e)] \in 128..255
                 /\ GroupsValue(e, 2) = n - 255
                 /\ (Len(e) > 2 => e[Len(e)] # 128)

\* C6 witness: 255 was encoded as 0xFF 0x80, and it took two characters
C6_Witness ==
    /\ src.kind = "length"
    /\ src.n = 255
    /\ src.encoded = <<255, 128>>

\* The data starts with 0xFF and no later character has the high bit set
Unterminated(data) ==
    /\ data # <<>>
    /\ data[1] = 255
    /\ \A i \in 2..Len(data) : (data[i] \div 128) % 2 = 0

\* C7: malformed input is an error, never a value.  Both decoders raise
\* ValueError on empty data and on 0xFF followed by no character with the
\* high bit set; in strict mode the length decoder raises when the decoded
\* length exceeds the number of characters left; so a string that
\* unserialise_string returns has exactly the decoded length.
C7_MalformedRejected ==
    /\ dec.op \in {"length", "string"} =>
          ((buf = <<>> \/ Unterminated(buf)) => IsValueError(dec.res))
    /\ (dec.op = "length" /\ dec.check /\ dec.res.ok)
          => dec.res.length <= Len(dec.res.data)
    /\ (dec.op = "length" /\ dec.check) =>
          LET lax == unserialise_length(buf, FALSE)
          IN  (lax.ok /\ lax.length > Len(lax.data)) => IsValueError(dec.res)
    /\ (dec.op = "string" /\ dec.res.ok) =>
          LET lax == unserialise_length(buf, FALSE)
          IN  /\ lax.ok
              /\ Len(dec.res.s) = lax.length
              /\ dec.res.s \o dec.res.data = lax.data

\* C7 witness: 0xFF 0x02 0x80 announces 257 characters, one follows, and
\* unserialise_string raised
C7_Witness ==
    /\ buf = <<255, 2, 128, 0>>
    /\ dec.op = "string"
    /\ IsValueError(dec.res)
    /\ dec.res.msg = "length greater than data"

(***************************************************************************)
(* Properties of the URL builder                                           *)
(***************************************************************************)
IsPrefix(p, s) == Len(p) <= Len(s) /\ SubSeq(s, 1, Len(p)) = p

S_http == <<"h", "t", "t", "p", ":", "/", "/">>

\* '@<nodename>' when a node name is given, else nothing
NodeSuffix(nodename) ==
    IF nodename.t = "str" /\ nodename.s # <<>> THEN <<"@">> \o nodename.s ELSE <<>>

\* ':search' and ':stats' for those two actions, nothing for the others
CommandSuffix(action_request) ==
    CASE action_request = "search" -> <<":", "s", "e", "a", "r", "c", "h">>
      [] action_request = "stats"  -> <<":", "s", "t", "a", "t", "s">>
      [] OTHER                     -> <<>>

ExampleClient ==
    Xapiand(PyStr(S_localhost), PyInt(8880), PyNone, PyStr(S_default), PyStr(S_json))

ExampleUrl ==
    <<"h", "t", "t", "p", ":", "/", "/", "l", "o", "c", "a", "l", "h", "o", "s", "t", ":", "8", "8", "8", "0", "/", "d", "e", "f", "a", "u", "l", "t", "/", "m", "y", "i", "n", "d", "e", "x", "/", ":", "s", "e", "a", "r", "c", "h">>

\* C8: _build_url returns exactly
\*   http://<host>:<port>/<joined-index-path><node-suffix><command-suffix>
\* with the node suffix '@<nodename>' only when a node name is given and the
\* command suffix ':search' / ':stats' exactly for the actions search and
\* stats; and the example of the claim gives exactly
\*   http://localhost:8880/default/myindex/:search
C8_UrlFormat ==
    urlCall.op = "_build_url" =>
        LET c == urlCall
        IN  /\ urlOut = S_http
                          \o ResolveHostPort(client, c.host, c.port)
                          \o <<"/">>
                          \o IndexPath(client, c.index, c.id, c.order)
                          \o NodeSuffix(c.nodename)
                          \o CommandSuffix(c.action_request)
            /\ ( /\ client = ExampleClient
                 /\ c.action_request = "search"
                 /\ c.index = PyStr(S_myindex)
                 /\ c.host = PyNone /\ c.port = PyNone
                 /\ c.nodename = PyNone /\ c.id = PyNone )
               => urlOut = ExampleUrl

\* C8 witness: a get with a node name, which gets '@n1' and no command suffix
C8_Witness ==
    /\ urlCall.op = "_build_url"
    /\ urlCall.action_request = "get"
    /\ urlCall.nodename = PyStr(<<"n", "1">>)
    /\ urlCall.id = PyStr(<<"d", "o", "c", "1">>)
    /\ urlOut[Len(urlOut)] = "1"
    /\ urlOut[Len(urlOut) - 2] = "@"

\* a host or port argument that is not empty or absent
Given(v) == (v.t = "str" /\ v.s # <<>>) \/ (v.t = "int" /\ v.i # 0)

HostHasColon(c) == c.host.t = "str" /\ Contains(c.host.s, ":")

\* C9 (amended): when the explicit host contains a colon, the part before
\* the first colon is the host and the part after it is the port, whatever
\* the explicit port argument, except that an empty part falls back to the
\* client-configured value; without a colon, an empty or absent host
\* (resp. port) argument falls back to the client-configured host (resp.
\* port); host and port are resolved independently of each other.
C9_HostPortResolution ==
    urlCall.op = "_build_url" =>
        LET c      == urlCall
            parts  == Partition(c.host.s, ":")
            h      == IF HostHasColon(c)
                      THEN IF parts.before # <<>> THEN parts.before ELSE Format(client.host)
                      ELSE IF Given(c.host) THEN Format(c.host) ELSE Format(client.host)
            p      == IF HostHasColon(c)
                      THEN IF parts.after # <<>> THEN parts.after ELSE Format(client.port)
                      ELSE IF Given(c.port) THEN Format(c.port) ELSE Format(client.port)
        IN  IsPrefix(S_http \o h \o <<":">> \o p \o <<"/">>, urlOut)

\* C9 witness: host 'h:77' together with an explicit port 9999
C9_Witness ==
    /\ urlCall.op = "_build_url"
    /\ urlCall.host = PyStr(<<"h", ":", "7", "7">>)
    /\ urlCall.port = PyInt(9999)
    /\ IsPrefix(S_http \o <<"h", ":", "7", "7", "/">>, urlOut)

\* C9 as stated: when the explicit host contains a colon, the part before
\* it is the host and the part after it is the port; otherwise an empty or
\* absent argument falls back to the client-configured value.
C9_AsStated ==
    urlCall.op = "_build_url" =>
        LET c      == urlCall
            parts  == Partition(c.host.s, ":")
            h      == IF HostHasColon(c) THEN parts.before
                      ELSE IF Given(c.host) THEN Format(c.host) ELSE Format(client.host)
            p      == IF HostHasColon(c) THEN parts.after
                      ELSE IF Given(c.port) THEN Format(c.port) ELSE Format(client.port)
        IN  IsPrefix(S_http \o h \o <<":">> \o p \o <<"/">>, urlOut)

\* The index tokens of the call, each with its slashes stripped and the
\* client prefix prepended
NormalizedTokens(c) == {client.prefix \o Strip(tok, "/") : tok \in IndexTokens(c.index)}

\* C10: the URL path lists each distinct normalized token exactly once,
\* each followed by '/' and the document id (empty when none is given),
\* the entries joined by commas in some order.
C10_IndexNormalization ==
    urlCall.op = "_build_url" =>
        LET c      == urlCall
            idtext == IF c.id.t = "str" THEN c.id.s ELSE <<>>
        IN  \E o \in Orderings(NormalizedTokens(c)) :
                urlOut = S_http
                           \o ResolveHostPort(client, c.host, c.port)
                           \o <<"/">>
                           \o Join([k \in 1..Len(o) |-> o[k] \o <<"/">> \o idtext], <<",">>)
                           \o NodeSuffix(c.nodename)
                           \o CommandSuffix(c.action_request)

(***************************************************************************)
(* Properties of the request dispatcher                                    *)
(***************************************************************************)

\* the invocation has run to its end on a response of the transport
Answered == pc = "done" /\ response.op = "response"

\* C1: a 404 response to get, patch, merge or delete gives back the
\* caller's default, whatever it is (None and falsy values included) and
\* without parsing the response, when a default was supplied; it raises
\* NotFoundError when the default is the NA sentinel.
C1_NotFoundDefault ==
    (/\ Answered
     /\ response.status_code = 404
     /\ call.action_request \in {"get", "patch", "merge", "delete"})
    => IF call.default = NA
       THEN outcome = Raise("NotFoundError", FALSE)
       ELSE outcome = Return(call.default, FALSE)

\* a get answered 404, with a parseable body, returns the default None
C1_Witness ==
    /\ Answered
    /\ response.status_code = 404
    /\ response.content.wf = "json"
    /\ "content-type" \in DOMAIN response.headers
    /\ call.action_request = "get"
    /\ call.default = PyNone
    /\ outcome = Return(PyNone, FALSE)

\* C2: an error status that is not a 404 on get, patch, merge or delete
\* (a 404 on search, stats, head, post, put or store, any other 4xx or 5xx
\* on any action) raises HTTPStatusError: not NotFoundError, and neither
\* the default nor the parsed body is returned.
C2_OtherErrorsPropagate ==
    (/\ Answered
     /\ response.status_code \in 400..599
     /\ ~(/\ response.status_code = 404
          /\ call.action_request \in {"get", "patch", "merge", "delete"}))
    => outcome = Raise("HTTPStatusError", FALSE)

\* a post with a default, answered 404, raises HTTPStatusError
C2_Witness ==
    /\ Answered
    /\ response.status_code = 404
    /\ call.action_request = "post"
    /\ call.default = PyStr(S_x)
    /\ outcome = Raise("HTTPStatusError", FALSE)

\* the response is a success whose body parses in the format its
\* content-type header names, and parses to a mapping
DecodedMapping ==
    /\ Answered
    /\ response.status_code \in 200..299
    /\ "content-type" \in DOMAIN response.headers
    /\ \/ /\ IsSubstring(S_msgpack, response.headers["content-type"])
          /\ response.content.wf = "msgpack"
       \/ /\ ~IsSubstring(S_msgpack, response.headers["content-type"])
          /\ IsSubstring(S_json, response.headers["content-type"])
          /\ response.content.wf = "json"
    /\ response.content.doc.w = "obj"

\* the mapping the body parses to
Decoded == Loads(response.content.doc).d

HitKeys == {"#hits", "#total_count", "#matches_estimated"}

HasFullQuery ==
    /\ RESPONSE_QUERY \in DOMAIN Decoded
    /\ Decoded[RESPONSE_QUERY].t = "dict"
    /\ HitKeys \subseteq DOMAIN Decoded[RESPONSE_QUERY].d

HasAggregations ==
    /\ RESPONSE_AGGREGATIONS \in DOMAIN Decoded
    /\ Truthy(Decoded[RESPONSE_AGGREGATIONS])

\* no non-empty result object is assembled: '#query' is absent or empty,
\* and so is '#aggregations'
NothingAssembled ==
    /\ RESPONSE_QUERY \in DOMAIN Decoded => ~Truthy(Decoded[RESPONSE_QUERY])
    /\ ~HasAggregations

\* the '#query' envelope is returned with its three keys renamed, and with
\* the top-level '#aggregations' under 'aggregations' exactly when that is
\* non-empty
QueryFlattened ==
    HasFullQuery =>
        /\ outcome.kind = "return"
        /\ outcome.value.t = "dict"
        /\ LET Q == Decoded[RESPONSE_QUERY].d
               R == outcome.value.d
           IN  /\ DOMAIN R = ((DOMAIN Q) \ HitKeys) \cup {"hits", "count", "total"}
                                \cup (IF HasAggregations THEN {"aggregations"} ELSE {})
               /\ R["hits"] = Q["#hits"]
               /\ R["count"] = Q["#total_count"]
               /\ R["total"] = Q["#matches_estimated"]
               /\ \A k \in (DOMAIN Q) \ HitKeys : R[k] = Q[k]
               /\ HasAggregations => R["aggregations"] = Decoded[RESPONSE_AGGREGATIONS]

\* the decoded content, without its envelope keys, is returned
ContentReturned ==
    NothingAssembled =>
        /\ outcome.kind = "return"
        /\ outcome.value.t = "dict"
        /\ outcome.value.d = MapPop(MapPop(Decoded, RESPONSE_QUERY), RESPONSE_AGGREGATIONS)

\* C3: for a decoded mapping, (a) a '#query' holding '#hits',
\* '#total_count' and '#matches_estimated' is returned with these renamed
\* to 'hits', 'count' and 'total', and with a non-empty top-level
\* '#aggregations' attached under 'aggregations'; (b) a non-empty
\* '#aggregations' without '#query' gives a new object holding only
\* 'aggregations'; (c) when neither '#query' nor '#aggregations' is
\* non-empty, the decoded content is returned.
C3_ResponseNormalization ==
    DecodedMapping =>
        /\ QueryFlattened
        /\ (RESPONSE_QUERY \notin DOMAIN Decoded /\ HasAggregations) =>
               outcome = Return(DictObject([k \in {"aggregations"} |->
                                               Decoded[RESPONSE_AGGREGATIONS]]), TRUE)
        /\ ContentReturned

\* the example response: '#query' with one hit, counts 100 and 150, and
\* non-empty '#aggregations'
C3_Witness ==
    /\ DecodedMapping
    /\ response.content.doc = ExampleDoc
    /\ outcome.kind = "return"
    /\ outcome.value.cls = "DictObject"
    /\ DOMAIN outcome.value.d = {"hits", "count", "total", "aggregations"}
    /\ outcome.value.d["hits"] =
           PyList(<<DictObject([k \in {"id"} |-> PyInt(1)])>>)
    /\ outcome.value.d["count"] = PyInt(100)
    /\ outcome.value.d["total"] = PyInt(150)
    /\ outcome.value.d["aggregations"] =
           DictObject([k \in {"_aggregations"} |->
                          DictObject([n \in {"n"} |-> PyInt(2)])])

\* C3 with its second case read as written: whenever '#aggregations' is
\* present without '#query', empty or not, the result is an object holding
\* 'aggregations'
C3_AsStated ==
    DecodedMapping =>
        /\ QueryFlattened
        /\ (RESPONSE_QUERY \notin DOMAIN Decoded
                /\ RESPONSE_AGGREGATIONS \in DOMAIN Decoded) =>
               /\ outcome.kind = "return"
               /\ outcome.value.t = "dict"
               /\ "aggregations" \in DOMAIN outcome.value.d
               /\ outcome.value.d["aggregations"] = Decoded[RESPONSE_AGGREGATIONS]
        /\ ContentReturned

(***************************************************************************)
(* Properties of request construction                                      *)
(***************************************************************************)

\* the request was handed to the transport
Sent == pc = "awaiting" /\ request.op = "request"

\* the call passed a params dict
HasParams ==
    /\ Sent
    /\ "params" \in DOMAIN call.kwargs
    /\ call.kwargs["params"] # PyNone

\* the name under which a parameter is expected on the wire
Dotted(k) ==
    CASE k = N_a__b   -> <<"a", ".", "b">>
      [] k = N_a___b  -> <<"a", ".", "_", "b">>
      [] k = N_x____y -> <<"x", ".", ".", "y">>
      [] OTHER        -> k

\* the value with which a parameter is expected on the wire
OneOrZero(v) ==
    IF v = PyBool(TRUE) THEN PyInt(1)
    ELSE IF v = PyBool(FALSE) THEN PyInt(0)
    ELSE v

\* the names of P that are not a falsy commit, volatile, pretty or indent
KeptNames(P) ==
    {k \in DOMAIN P.d :
        k \notin {N_commit, N_volatile, N_pretty, N_indent} \/ Truthy(P.d[k])}

\* the position of name k in the iteration order of P
Position(P, k) == CHOOSE i \in 1..Len(P.keys) : P.keys[i] = k

\* kept names other than k that become the same name on the wire
Rivals(P, k) == {j \in KeptNames(P) \ {k} : Dotted(j) = Dotted(k)}

\* C11: the parameters sent are those of the input, without the falsy
\* commit, volatile, pretty and indent; each name has '__' replaced by
\* '.'; a Boolean is sent as 1 or 0 and any other value unchanged.  When
\* two kept names become the same name, that name is sent once, with the
\* value of the one the dict yields last.
C11_ParamsNormalized ==
    HasParams =>
        LET P == call.kwargs["params"]
            S == request.kwargs["params"].d
        IN  /\ DOMAIN S = {Dotted(k) : k \in KeptNames(P)}
            /\ \A k \in KeptNames(P) :
                   (\A j \in Rivals(P, k) : Position(P, j) < Position(P, k))
                       => S[Dotted(k)] = OneOrZero(P.d[k])

\* a falsy commit is dropped, pretty=True is sent as 1, a__b as a.b
C11_Witness ==
    /\ HasParams
    /\ call.kwargs["params"] =
           PyDictOf(<<<<N_commit, PyBool(FALSE)>>, <<N_pretty, PyBool(TRUE)>>,
                      <<N_a__b, PyStr(S_x)>>>>)
    /\ request.kwargs["params"] =
           PyDict(Kw(N_pretty, PyInt(1)) @@ Kw(N_a_b, PyStr(S_x)))

\* C11 as written: every kept parameter is sent, under its new name and
\* with its value
C11_AsStated ==
    HasParams =>
        LET P == call.kwargs["params"]
            S == request.kwargs["params"].d
        IN  /\ DOMAIN S = {Dotted(k) : k \in KeptNames(P)}
            /\ \A k \in KeptNames(P) : S[Dotted(k)] = OneOrZero(P.d[k])

\* the verb each action kind is sent with
VerbOf(a) ==
    CASE a \in {"search", "stats", "get"} -> "GET"
      [] a = "head"   -> "HEAD"
      [] a = "delete" -> "DELETE"
      [] a = "post"   -> "POST"
      [] a = "put"    -> "PUT"
      [] a = "patch"  -> "PATCH"
      [] a = "merge"  -> "MERGE"
      [] a = "store"  -> "STORE"

\* the call supplies a body: as the body argument, or as a json or
\* msgpack keyword
BodySupplied ==
    \/ call.body # PyNone
    \/ "json" \in DOMAIN call.kwargs /\ call.kwargs["json"] # PyNone
    \/ "msgpack" \in DOMAIN call.kwargs /\ call.kwargs["msgpack"] # PyNone

\* C12: every action is sent with the verb of its kind, except that a
\* search with a body (body argument, json or msgpack keyword) is sent
\* with POST.
C12_VerbResolution ==
    Sent =>
        request.method = IF call.action_request = "search" /\ BodySupplied
                         THEN "POST"
                         ELSE VerbOf(call.action_request)

\* the headers and the payload handed to the transport
SentHeaders == request.kwargs["headers"].d

HasContent == "content" \in DOMAIN request.kwargs

SentContent == request.kwargs["content"]

\* the headers the caller passed, if any
CallerHeaders ==
    IF "headers" \in DOMAIN call.kwargs THEN call.kwargs["headers"].d ELSE EmptyMap

\* the payload is the mapping or sequence v serialized in format fmt (a
\* mapping with a '_schema' reference is serialized after its rewrite)
SerializedAs(fmt, v) ==
    /\ HasContent
    /\ SentContent.t = "encoded"
    /\ SentContent.format = fmt
    /\ (v.t = "list" \/ "_schema" \notin DOMAIN v.d) => SentContent.of = v

\* what the keyword k (json or msgpack), with content type ct, does
KeywordRules(k, ct) ==
    /\ SentHeaders["content-type"] = PyStr(ct)
    /\ k \notin DOMAIN request.kwargs
    /\ CASE call.kwargs[k].t \in {"dict", "list"} -> SerializedAs(k, call.kwargs[k])
         [] call.kwargs[k].t = "str" ->
                /\ HasContent
                /\ SentContent = IF call.isfile THEN FileHandle(call.kwargs[k])
                                 ELSE call.kwargs[k]
         [] call.kwargs[k].t = "none" -> ~HasContent

\* without a body keyword: content-type defaults to accept, and the format
\* of a mapping or sequence body follows the content-type
HeaderRules ==
    /\ SentHeaders["accept"] =
           IF "accept" \in DOMAIN CallerHeaders THEN CallerHeaders["accept"]
           ELSE PyStr(client.default_accept)
    /\ SentHeaders["content-type"] =
           IF "content-type" \in DOMAIN CallerHeaders THEN CallerHeaders["content-type"]
           ELSE SentHeaders["accept"]
    /\ call.body.t \in {"dict", "list"} =>
           IF IsSubstring(S_msgpack, SentHeaders["content-type"].s)
           THEN SerializedAs("msgpack", call.body)
           ELSE IF IsSubstring(S_json, SentHeaders["content-type"].s)
           THEN SerializedAs("json", call.body)
           ELSE HasContent /\ SentContent.t \in {"dict", "list"}

\* C13: a json keyword - or, when there is no json keyword, a msgpack
\* keyword - replaces the body argument, sets the content-type header to
\* application/json (application/x-msgpack) whatever the caller's headers
\* say, has a mapping or sequence serialized in that format (a string goes
\* out as given, or as the file it names), and is not forwarded.  A
\* msgpack keyword next to a json keyword is forwarded untouched.  With
\* neither keyword the content-type defaults to the accept header and
\* decides the format.
C13_ContentType ==
    Sent =>
        /\ "json" \in DOMAIN call.kwargs => KeywordRules("json", S_json)
        /\ ("msgpack" \in DOMAIN call.kwargs /\ "json" \notin DOMAIN call.kwargs)
               => KeywordRules("msgpack", S_msgpack)
        /\ ("msgpack" \in DOMAIN call.kwargs /\ "json" \in DOMAIN call.kwargs)
               => /\ "msgpack" \in DOMAIN request.kwargs
                  /\ request.kwargs["msgpack"] = call.kwargs["msgpack"]
        /\ ("json" \notin DOMAIN call.kwargs /\ "msgpack" \notin DOMAIN call.kwargs)
               => HeaderRules

\* a json keyword overrides a body argument, and an application/x-msgpack
\* content-type of the caller
C13_Witness ==
    /\ Sent
    /\ call.body = PyList(<<PyInt(1)>>)
    /\ DOMAIN call.kwargs = {"headers", "json"}
    /\ call.kwargs["json"] = PlainDict
    /\ "content-type" \in DOMAIN CallerHeaders
    /\ CallerHeaders["content-type"] = PyStr(S_msgpack)
    /\ SentHeaders["content-type"] = PyStr(S_json)
    /\ SentContent = Dumps("json", PlainDict)
    /\ DOMAIN request.kwargs = {"headers", "content"}

\* C13 as written: the rules of a keyword hold for every call that
\* carries it
C13_AsStated ==
    Sent =>
        /\ "json" \in DOMAIN call.kwargs => KeywordRules("json", S_json)
        /\ "msgpack" \in DOMAIN call.kwargs => KeywordRules("msgpack", S_msgpack)
        /\ ("json" \notin DOMAIN call.kwargs /\ "msgpack" \notin DOMAIN call.kwargs)
               => HeaderRules

\* the body that takes effect: the json keyword, else the msgpack
\* keyword, else the body argument
EffectiveBody ==
    IF "json" \in DOMAIN call.kwargs THEN call.kwargs["json"]
    ELSE IF "msgpack" \in DOMAIN call.kwargs THEN call.kwargs["msgpack"]
    ELSE call.body

\* the object that travels as payload, serialized or not
SentObject == IF SentContent.t = "encoded" THEN SentContent.of ELSE SentContent

\* the schema references of the calls, with their slashes stripped; one
\* that an earlier call already rewrote has no slash at either end
Stripped(s) ==
    CASE s = S_foo       -> <<"f", "o", "o">>
      [] s = S_foo_slash -> <<"f", "o", "o">>
      [] OTHER           -> s

\* the body is a mapping whose '_schema' is a string
HasSchemaString ==
    /\ EffectiveBody.t = "dict"
    /\ "_schema" \in DOMAIN EffectiveBody.d
    /\ EffectiveBody.d["_schema"].t = "str"

\* the body is a mapping whose '_schema' is a mapping with a '_foreign'
\* string
HasForeignSchema ==
    /\ EffectiveBody.t = "dict"
    /\ "_schema" \in DOMAIN EffectiveBody.d
    /\ EffectiveBody.d["_schema"].t = "dict"
    /\ "_foreign" \in DOMAIN EffectiveBody.d["_schema"].d
    /\ EffectiveBody.d["_schema"].d["_foreign"].t = "str"

\* C14: a body mapping with a '_schema' reference - a string, or the
\* '_foreign' entry of a nested mapping - is sent with the reference
\* replaced by the client prefix followed by the reference stripped of its
\* leading and trailing slashes, and with every other key as the caller
\* gave it.
C14_SchemaPrefixed ==
    (pc # "idle" /\ call.op = "_send_request" /\ (HasSchemaString \/ HasForeignSchema)) =>
        /\ Sent
        /\ HasContent
        /\ SentObject.t = "dict"
        /\ DOMAIN SentObject.d = DOMAIN EffectiveBody.d
        /\ \A k \in (DOMAIN EffectiveBody.d) \ {"_schema"} :
               SentObject.d[k] = EffectiveBody.d[k]
        /\ HasSchemaString =>
               SentObject.d["_schema"] =
                   PyStr(client.prefix \o Stripped(EffectiveBody.d["_schema"].s))
        /\ HasForeignSchema =>
               /\ SentObject.d["_schema"].t = "dict"
               /\ DOMAIN SentObject.d["_schema"].d = DOMAIN EffectiveBody.d["_schema"].d
               /\ \A k \in (DOMAIN EffectiveBody.d["_schema"].d) \ {"_foreign"} :
                      SentObject.d["_schema"].d[k] = EffectiveBody.d["_schema"].d[k]
               /\ SentObject.d["_schema"].d["_foreign"] =
                      PyStr(client.prefix
                            \o Stripped(EffectiveBody.d["_schema"].d["_foreign"].s))

\* {"_schema": "/foo"} on a client with prefix 'pre' is sent as JSON with
\* '_schema' equal to 'pre/foo'
C14_Witness ==
    /\ Sent
    /\ client.prefix = <<"p", "r", "e", "/">>
    /\ call.body = PyDict(Kw("_schema", PyStr(<<"/", "f", "o", "o">>)))
    /\ DOMAIN call.kwargs = {}
    /\ HasContent
    /\ SentContent =
           Dumps("json", PyDict(Kw("_schema", PyStr(<<"p", "r", "e", "/", "f", "o", "o">>))))

\* the call has no body and passes a data keyword
HasDataOnly ==
    /\ Sent
    /\ EffectiveBody = PyNone
    /\ "data" \in DOMAIN call.kwargs

\* C15: with no body, a data keyword is sent as payload, encoded in the
\* negotiated format, whatever its value and whatever the content type;
\* it is never dropped.
C15_DataEncoded ==
    HasDataOnly =>
        /\ HasContent
        /\ SentContent.t = "encoded"
        /\ SentContent.of = call.kwargs["data"]
        /\ IsSubstring(S_msgpack, SentHeaders["content-type"].s)
               => SentContent.format = "msgpack"
        /\ (/\ ~IsSubstring(S_msgpack, SentHeaders["content-type"].s)
            /\ IsSubstring(S_json, SentHeaders["content-type"].s))
               => SentContent.format = "json"

\* every mapping inside the value v is a DictObject
RECURSIVE OnlyDictObjects(_)
OnlyDictObjects(v) ==
    CASE v.t = "dict" -> /\ v.cls = "DictObject"
                         /\ \A k \in DOMAIN v.d : OnlyDictObjects(v.d[k])
      [] v.t = "list" -> \A i \in 1..Len(v.items) : OnlyDictObjects(v.items[i])
      [] OTHER        -> TRUE

\* the content-type header of the response, '' when there is none
ResponseContentType ==
    IF "content-type" \in DOMAIN response.headers
    THEN response.headers["content-type"] ELSE <<>>

\* the format the content-type header of the response names, if any
ResponseFormat ==
    IF IsSubstring(S_msgpack, ResponseContentType) THEN "msgpack"
    ELSE IF IsSubstring(S_json, ResponseContentType) THEN "json"
    ELSE "other"

\* C16: on a success status, a response whose content-type names JSON or
\* msgpack is parsed in that format, and the mappings of what is returned
\* are DictObjects; under any other content-type, or none, the raw bytes
\* are returned as they are, unparsed.
C16_DecodedByContentType ==
    (Answered /\ response.status_code \in 200..299) =>
        IF ResponseFormat = "other"
        THEN outcome = Return([t |-> "bytes", content |-> response.content], FALSE)
        ELSE /\ outcome.decoded
             /\ (outcome.kind = "raise" /\ outcome.exc = "DecodeError")
                    <=> response.content.wf # ResponseFormat
             /\ outcome.kind = "return" => OnlyDictObjects(outcome.value)
             /\ (response.content.wf = ResponseFormat /\ response.content.doc = SimpleDoc)
                    => outcome = Return(DictObject(Kw("_id", PyInt(1))), TRUE)

\* a text/plain response whose body would parse as JSON comes back as bytes
C16_Witness ==
    /\ Answered
    /\ response.status_code = 200
    /\ ResponseContentType = S_text
    /\ response.content.wf = "json"
    /\ outcome = Return([t |-> "bytes", content |-> response.content], FALSE)

(***************************************************************************)
(* Properties of the client methods                                        *)
(***************************************************************************)
\* the method fn of the client was called
Called(fn) == pc # "idle" /\ "via" \in DOMAIN call /\ call.via.fn = fn

\* the parameters handed to the transport
SentParams == request.kwargs["params"].d

\* C17: for every offset argument of search the request carries
\* offset = int(offset) when the argument parses as an integer that does
\* not exceed OFFSET_LIMIT (the limit itself is sent unchanged), offset = 0
\* when it is not numeric or exceeds the limit, and no offset parameter
\* when none is given; the call never fails because of the offset.
C17_SearchOffset ==
    Called("search") =>
        /\ Sent
        /\ IF call.via.offset = PyNone
           THEN N_offset \notin DOMAIN SentParams
           ELSE /\ N_offset \in DOMAIN SentParams
                /\ SentParams[N_offset] =
                       PyInt(IF /\ IntOf(call.via.offset).ok
                                /\ IntOf(call.via.offset).i <= OFFSET_LIMIT
                             THEN IntOf(call.via.offset).i
                             ELSE 0)

\* the commit flag in force for the method call: the per-call value when
\* one is passed, the client's otherwise
CommitInForce == IF call.via.commit # PyNone THEN call.via.commit ELSE client.commit

\* C18: post, put, patch, merge, store and delete use the per-call commit
\* value when one is passed (an explicit False overrides a client with
\* commit=True) and the client's otherwise; the request carries commit=1
\* when that flag is True and no commit parameter when it is False.
C18_CommitDefaulting ==
    \A fn \in WriteMethods :
        Called(fn) =>
            /\ Sent
            /\ CommitInForce.t = "bool"
            /\ IF CommitInForce.b
               THEN /\ N_commit \in DOMAIN SentParams
                    /\ SentParams[N_commit] = PyInt(1)
               ELSE N_commit \notin DOMAIN SentParams

\* a write on a client with commit=True passes commit=False, and the
\* request carries no commit parameter
C18_Witness ==
    /\ Called("delete")
    /\ Sent
    /\ client.commit = PyBool(TRUE)
    /\ call.via.commit = PyBool(FALSE)
    /\ N_commit \notin DOMAIN SentParams

\* the invocation of _send_request got as far as the transport call
Constructed == PrepareRequest(client, call, IndexOrder(call.index), call.isfile).ok

\* the transport raised instead of answering
TransportFailed == pc = "done" /\ sent = 1 /\ response.op # "response"

\* the caller of a failed request gets the error, or the default it passed
\* for a document that is not found
ErrorSurfaced ==
    \/ outcome.kind = "raise"
    \/ /\ response.op = "response"
       /\ response.status_code = 404
       /\ call.action_request \in NotFoundActions
       /\ call.default # NA
       /\ outcome = Return(call.default, FALSE)

\* the number of transport requests an invocation has issued
RequestsIssued ==
    /\ sent <= 1
    /\ pc = "idle" => sent = 0
    /\ (pc # "idle" /\ call.op = "method") => sent = 0
    /\ (pc # "idle" /\ call.op = "_send_request") => sent = (IF Constructed THEN 1 ELSE 0)
    /\ pc = "awaiting" => sent = 1
    /\ (Answered /\ RaisesForStatus(response)) => ErrorSurfaced
    /\ TransportFailed => outcome = Raise("TransportError", FALSE)

\* C19: every invocation issues at most one transport request, exactly one
\* when the request is constructed; after an error status or a transport
\* failure the call ends with the error and no further request is issued,
\* for every action and for the methods update, count and index.
C19_SingleRequest ==
    /\ []RequestsIssued
    /\ [][(pc # "idle" => sent' = sent) /\ (pc = "done" => pc' = "done")]_vars

\* an update answered with an error status: one request, the error raised
C19_Witness ==
    /\ Called("update")
    /\ Answered
    /\ response.status_code = 500
    /\ sent = 1
    /\ outcome.kind = "raise"

(***************************************************************************)
(* Properties of concurrent calls                                          *)
(***************************************************************************)
\* the request the call c hands to the transport when it runs alone
RequestAlone(c) ==
    [op |-> "request"] @@ PrepareRequest(client, c, IndexOrder(c.index), c.isfile).request

\* each task has issued the request, and got the result, of its own call
OwnResult ==
    \A t \in Tasks :
        /\ request[t] # NoCall => request[t] = RequestAlone(call[t])
        /\ (pc[t] = "done" /\ response[t] # NoCall) =>
               outcome[t] = ProcessResponse(call[t], response[t])
        /\ (pc[t] = "done" /\ response[t] = NoCall /\ request[t] # NoCall) =>
               outcome[t] = Raise("TransportError", FALSE)

\* a step leaves the client, and what the other tasks hold, as they are
NoInterference ==
    /\ client' = client
    /\ \A t \in Tasks :
           /\ pc[t] # "idle" => (call'[t] = call[t] /\ request'[t] = request[t])
           /\ pc[t] = "done" => (response'[t] = response[t] /\ outcome'[t] = outcome[t]
                                 /\ pc'[t] = "done")

AskedToFollow ==
    /\ "follow_redirects" \in DOMAIN call.kwargs
    /\ Truthy(call.kwargs["follow_redirects"])

\* the dispatcher put no redirect option of its own into the request
NoRedirectOptionAdded ==
    \A k \in {"follow_redirects", "allow_redirects"} :
        k \in DOMAIN request.kwargs => k \in DOMAIN call.kwargs

\* C21: the shared session is set not to follow redirects, the dispatcher
\* adds no redirect option to the call, and a request follows redirects
\* only when the caller passes a true follow_redirects keyword itself.
C21_NoRedirectUnlessAsked ==
    /\ ~session.follow_redirects
    /\ Sent =>
           /\ NoRedirectOptionAdded
           /\ FollowsRedirects(request.kwargs) <=> AskedToFollow

\* a call with another transport keyword and no redirect keyword is sent
\* and does not follow redirects
C21_Witness ==
    /\ Sent
    /\ "timeout" \in DOMAIN call.kwargs
    /\ "follow_redirects" \notin DOMAIN call.kwargs
    /\ request.kwargs["timeout"] = PyInt(5)
    /\ ~FollowsRedirects(request.kwargs)

\* C21 as stated: no request issued through the dispatcher follows
\* redirects, whatever extra keyword arguments the caller supplies.
C21_AsStated ==
    /\ ~session.follow_redirects
    /\ Sent =>
           /\ NoRedirectOptionAdded
           /\ ~FollowsRedirects(request.kwargs)

(***************************************************************************)
(* Properties of the scalar codec                                          *)
(***************************************************************************)
\* a value was encoded and the encoding decoded
RoundTripped == src.kind = "serialized" /\ dec.op = "_deserialize_value"

\* the string s is a date written YYYY-MM-DD
WrittenAsDate(s) == DateShape(s)

\* the string s is a time written HH:MM:SS, with a fraction or an offset
\* after it when the time has one
WrittenAsTime(s) == TimeShape(s)

\* the encoding of a supported value has the form the codec promises
EncodedForm(v, e) ==
    CASE v.t = "date"     -> e.t = "str" /\ WrittenAsDate(e.s)
      [] v.t = "time"     -> e.t = "str" /\ WrittenAsTime(e.s)
      [] v.t = "datetime" ->
             /\ e.t = "str" /\ Len(e.s) >= 19
             /\ WrittenAsDate(SubSeq(e.s, 1, 10)) /\ e.s[11] = "T"
             /\ WrittenAsTime(SubSeq(e.s, 12, Len(e.s)))
      [] v.t = "decimal"  -> e.t = "float"
      [] OTHER            -> FALSE

\* C22: encoding a date, a time, a date-time or a decimal and decoding the
\* result gives back a value equal to the original, and the encoding is
\* YYYY-MM-DD, HH:MM:SS, YYYY-MM-DDTHH:MM:SS or a number respectively.
C22_ScalarRoundTrip ==
    /\ src.kind = "serialized" => EncodedForm(src.of, buf)
    /\ RoundTripped => PyEquals(dec.value, src.of)

\* every kind of supported value made the round trip: this one is a
\* date-time with a fraction of a second and a UTC offset
C22_Witness ==
    /\ RoundTripped
    /\ src.of = PyDateTime(PyDate(2024, 2, 29), PyTime(12, 30, 45, 500000, PyTz(0 - 300)))
    /\ buf = PyStr(<<"2", "0", "2", "4", "-", "0", "2", "-", "2", "9", "T", "1", "2", ":", "3", "0", ":", "4", "5", ".", "5", "0", "0", "0", "0", "0", "-", "0", "5", ":", "0", "0">>)
    /\ dec.value = src.of

(***************************************************************************)
(* Properties of the scalar codec in the dispatcher                        *)
(***************************************************************************)
\* what lines 319-344 make of the call: the effective body, the headers
\* and the wire format
Negotiated ==
    Negotiate(KwargsWithParams(call.kwargs),
              DefaultHeaders(client, KwargsWithParams(call.kwargs)),
              call.body)

\* the payload of the call that is encoded: the effective body, or the
\* data keyword when there is no body
Payload ==
    IF Negotiated.body # PyNone THEN Negotiated.body
    ELSE IF "data" \in DOMAIN call.kwargs THEN call.kwargs["data"]
    ELSE PyNone

\* the call has a mapping or sequence payload and a JSON or msgpack format
PayloadEncoded ==
    /\ pc # "idle" /\ call.op = "_send_request"
    /\ Payload.t \in {"dict", "list"} /\ Truthy(Payload)
    /\ Negotiated.is_msgpack \/ Negotiated.is_json
    /\ ~(Payload.t = "dict" /\ "_schema" \in DOMAIN Payload.d)

ScalarTypes == {"decimal", "date", "time", "datetime"}

\* v holds a decimal, a date, a time or a date-time at some depth
RECURSIVE HoldsScalar(_)
HoldsScalar(v) ==
    CASE v.t \in ScalarTypes -> TRUE
      [] v.t = "list" -> \E i \in DOMAIN v.items : HoldsScalar(v.items[i])
      [] v.t = "dict" -> \E k \in DOMAIN v.d : HoldsScalar(v.d[k])
      [] OTHER -> FALSE

\* every leaf of v has a wire form: natively, or through the codec
RECURSIVE HasWireForm(_)
HasWireForm(v) ==
    CASE v.t \in ScalarTypes \cup {"none", "bool", "int", "float", "str"} -> TRUE
      [] v.t = "list" -> \A i \in DOMAIN v.items : HasWireForm(v.items[i])
      [] v.t = "dict" -> \A k \in DOMAIN v.d : HasWireForm(v.d[k])
      [] OTHER -> FALSE

\* v with every decimal, date, time and date-time replaced by its encoding
RECURSIVE WireForm(_)
WireForm(v) ==
    CASE v.t \in ScalarTypes -> serialize_default(v).value
      [] v.t = "list" -> PyList([i \in DOMAIN v.items |-> WireForm(v.items[i])])
      [] v.t = "dict" -> [v EXCEPT !.d = [k \in DOMAIN v.d |-> WireForm(v.d[k])]]
      [] OTHER -> v

\* C23: a body or data payload holding decimals, dates, times or
\* date-times at any depth is sent, with decimals as numbers and the others
\* as ISO strings; only a value of a type with no wire form makes the call
\* fail, with an encoding error.
C23_ScalarsEncodedOutbound ==
    PayloadEncoded =>
        IF HasWireForm(Payload)
        THEN /\ pc = "awaiting"
             /\ request.kwargs["content"].t = "encoded"
             /\ request.kwargs["content"].of = WireForm(Payload)
        ELSE pc = "done" /\ outcome = Raise("TypeError", FALSE)

\* v with _deserialize_value applied to every value of every mapping in it
RECURSIVE Deserialized(_)
Deserialized(v) ==
    CASE v.t = "dict" -> [v EXCEPT !.d = [k \in DOMAIN v.d |-> Deserialized(v.d[k])]]
      [] v.t = "list" -> PyList([i \in DOMAIN v.items |-> Deserialized(v.items[i])])
      [] OTHER -> deserialize_value(v)

\* the call returned the decoded content of a reply
ReturnedDecoded == pc = "done" /\ outcome.kind = "return" /\ outcome.decoded

\* C24: in what a call returns from a decoded reply, at every depth, floats
\* have become decimals and strings that are entirely a date, a time or a
\* date-time have become such values, while integers, booleans, null,
\* partial matches and invalid calendar dates are as they were sent.
C24_ScalarsDecodedInbound ==
    ReturnedDecoded => outcome.value = Deserialized(outcome.value)

(***************************************************************************)
(* Properties of the collections                                           *)
(***************************************************************************)
\* for the name k, the attribute exists exactly when k is a key, and is
\* then the value under the key
AttributeIsKey(k) ==
    /\ hasattr(TheObject, k) <=> k \in DOMAIN buf
    /\ k \in DOMAIN buf => getattr(TheObject, k) = buf[k]

\* deleting a missing name through the attribute interface of an
\* OrderedDictObject raised KeyError and changed nothing
MissingDeleteRaises ==
    (/\ dec.op = "delattr" /\ src.cls = "OrderedDictObject"
     /\ dec.missing)
        => dec.ok = FALSE /\ dec.exc = "KeyError" /\ ~dec.changed

\* the original wording of C25: the attribute and the key agree for every
\* name, after any sets and deletes
C25_AsStated ==
    src.kind = "object" => (\A k \in Names : AttributeIsKey(k)) /\ MissingDeleteRaises

\* the instance dictionary stops being the object only when __dict__ is
\* assigned or deleted through the attribute interface of a DictObject
OnlyDictAttributeUnwires ==
    (src.kind = "object" /\ src.wired /\ ~src.wired')
        => /\ src.cls = "DictObject"
           /\ dec'.op \in {"setattr", "delattr"}
           /\ dec'.name = "__dict__"

\* C25 (amended): while the instance dictionary is the object itself, which
\* only assigning or deleting __dict__ through the attribute interface of a
\* DictObject ends, every name that is not an attribute of the class is an
\* attribute exactly when it is a key, with the same value; deleting a
\* missing name through the attribute interface of OrderedDictObject raises
\* KeyError and leaves the object unchanged.
C25_AttributesAreKeys ==
    /\ [](src.kind = "object" =>
            /\ src.wired => \A k \in Names \ ClassAttributes : AttributeIsKey(k)
            /\ MissingDeleteRaises)
    /\ [][OnlyDictAttributeUnwires]_vars

\* a name was set through one interface and deleted through the other, and
\* a missing name was then deleted through the attribute interface of an
\* OrderedDictObject
C25_Witness ==
    /\ src.kind = "object" /\ src.cls = "OrderedDictObject" /\ src.wired
    /\ dec.op = "delattr" /\ dec.name = "a" /\ dec.exc = "KeyError"
    /\ "b" \in DOMAIN buf /\ getattr(TheObject, "b") = PyInt(1)
    /\ "a" \notin DOMAIN buf /\ ~hasattr(TheObject, "a")

(***************************************************************************)
(* Properties of the caller's objects                                      *)
(***************************************************************************)
\* the same call was issued a second time
Repeated == call.op = "_send_request" /\ "first" \in DOMAIN call

\* C26: a call leaves the caller's body (with a '_schema' mapping in it),
\* headers and keyword arguments as they were, so the same call issued
\* again with the same objects sends the same request.
C26_CallerObjectsUnchanged ==
    Repeated =>
        /\ call.body = call.first.call.body
        /\ call.kwargs = call.first.call.kwargs
        /\ call.first.pc = "awaiting" => pc = "awaiting" /\ request = call.first.request

(***************************************************************************)
(* Properties of response normalization on every decoded shape             *)
(***************************************************************************)
\* the response is a success whose body parses in the format its
\* content-type header names, to a value of any shape
DecodedBody ==
    /\ Answered
    /\ response.status_code \in 200..299
    /\ "content-type" \in DOMAIN response.headers
    /\ \/ /\ IsSubstring(S_msgpack, response.headers["content-type"])
          /\ response.content.wf = "msgpack"
       \/ /\ ~IsSubstring(S_msgpack, response.headers["content-type"])
          /\ IsSubstring(S_json, response.headers["content-type"])
          /\ response.content.wf = "json"

\* C27: for every success response whose body decodes, whatever its shape
\* (a sequence, a scalar, a mapping without envelope keys, an empty or a
\* partial '#query' envelope), the call returns a value and does not raise.
C27_NormalizationTotal == DecodedBody => outcome.kind = "return"

(***************************************************************************)
(* Properties of body serialization                                        *)
(***************************************************************************)
\* a request with a body was handed to the transport
SentWithBody ==
    pc = "awaiting" /\ call.op = "_send_request" /\ Negotiated.body # PyNone

\* C28: whenever the effective body is a mapping or a sequence, the payload
\* handed to the transport is its JSON or msgpack serialization and never
\* the object itself, whatever the default accept, the accept header and
\* the content-type header are; a string body that names a file is replaced
\* by the file, and any other string is sent as given.
C28_BodySerialized ==
    SentWithBody =>
        CASE Negotiated.body.t \in {"dict", "list"} ->
                /\ request.kwargs["content"].t = "encoded"
                /\ request.kwargs["content"].format \in {"json", "msgpack"}
          [] Negotiated.body.t = "str" ->
                request.kwargs["content"] =
                    IF call.isfile THEN FileHandle(Negotiated.body) ELSE Negotiated.body
          [] OTHER -> TRUE

(***************************************************************************)
(* Properties of unserialise_length as an inverse                          *)
(***************************************************************************)
\* unserialise_length was called on the buffer and gave (length, data)
LengthDecoded == dec.op = "length" /\ dec.res.ok

\* the characters of the buffer that the call consumed
Consumed == SubSeq(buf, 1, Len(buf) - Len(dec.res.data))

\* what is left is a proper suffix of the buffer
ProperSuffix ==
    /\ Len(dec.res.data) < Len(buf)
    /\ dec.res.data = SubSeq(buf, Len(buf) - Len(dec.res.data) + 1, Len(buf))

\* the buffer starts with the encoding of the length that was decoded
ReEncodes == buf = serialise_length(dec.res.length) \o dec.res.data

\* the characters p are an encoding that serialise_length writes: each is
\* below 256, and a group of zero bits does not end several groups
Canonical(p) ==
    /\ \A i \in DOMAIN p : p[i] < 256
    /\ Len(p) > 2 => p[Len(p)] # 128

\* the original wording of C29: whatever unserialise_length accepts is the
\* encoding of the length it gives, followed by the rest
C29_AsStated == LengthDecoded => ReEncodes /\ ProperSuffix

\* C29 (amended): whenever unserialise_length succeeds with (n, rest), at
\* least one character is consumed and rest is a proper suffix of the data;
\* the data is serialise_length(n) + rest exactly when the consumed
\* characters are all below 256 and do not end, after other groups, with a
\* group of zero bits.
C29_InverseOnCanonical ==
    LengthDecoded => ProperSuffix /\ (ReEncodes <=> Canonical(Consumed))

\* a three-character encoding was decoded and a character was left
C29_Witness ==
    /\ LengthDecoded
    /\ buf = <<255, 2, 130, 0>>
    /\ dec.res.length = 255 + 2 + 2 * 128
    /\ dec.res.data = <<0>>
    /\ ReEncodes

(***************************************************************************)
(* Properties of the legacy client                                         *)
(***************************************************************************)
\* both clients were given the call
SideBySide == pc # "idle" /\ dec.op = "legacy _send_request"

\* the query parameters of a request
ParamsOf(r) == IF "params" \in DOMAIN r.kwargs THEN r.kwargs["params"] ELSE PyNone

\* the payload of a request: the content, or else the data
PayloadOf(r) ==
    IF "content" \in DOMAIN r.kwargs THEN r.kwargs["content"]
    ELSE IF "data" \in DOMAIN r.kwargs THEN r.kwargs["data"]
    ELSE PyNone

\* C30: on the same configuration and the same call, the legacy client and
\* the async client choose the same verb, build the same URL, send the
\* same parameters, headers and payload (a data parameter included), and
\* fail alike when they fail before the transport.
C30_LegacyAgrees ==
    SideBySide =>
        IF pc = "awaiting"
        THEN /\ dec.res.ok
             /\ dec.res.request.method = request.method
             /\ dec.res.request.url = request.url
             /\ ParamsOf(dec.res.request) = ParamsOf(request)
             /\ dec.res.request.kwargs["headers"] = request.kwargs["headers"]
             /\ PayloadOf(dec.res.request) = PayloadOf(request)
        ELSE ~dec.res.ok /\ dec.res.exc = outcome.exc

=============================================================================
